---- MODULE Spec2Model ----
(***************************************************************************)
(* Resilience layer of CarIActerologie: the CircuitBreaker, the retry loop *)
(* retry_with_backoff and their composition retry_with_circuit_breaker     *)
(* (infrastructure/resilience/retry_service.py), driven by concurrent      *)
(* callers that share one breaker.                                         *)
(*                                                                         *)
(* Time is an integer clock `now` (datetime.now() in seconds).  An         *)
(* exception object is a record [kind, id]: kind is its class with respect *)
(* to the classification sets, id the number of the callable invocation    *)
(* that raised it (0 when the callable did not raise it).  A value         *)
(* returned by the callable is the number of the invocation that returned  *)
(* it; 0 stands for None.                                                  *)
(*                                                                         *)
(* Every `with self._lock:` block is one step.  The statements of execute  *)
(* outside the lock (the reads of last_failure_time after a refusal, the   *)
(* invocation of the callable) are steps of their own, so other callers    *)
(* interleave with them.                                                   *)
(***************************************************************************)
EXTENDS Integers, Sequences, FiniteSets, TLC

\* ---- bounds of the model ----
NumCallers == 2
MaxThreshold == 2
MaxRetries == 2
MaxTime == 1
MaxFailures == 3
MaxSuccess == 1
RecoveryTimeout == 1

Callers == 1..NumCallers
None == -1

\* ---- classification of exceptions (RETRIABLE_ERRORS / NON_RETRIABLE_ERRORS) ----
RETRIABLE_ERRORS == {"retriable"}
NON_RETRIABLE_ERRORS == {"nonretriable"}
\* what one invocation of the protected callable can do
FuncOutcomes == {"ok", "retriable", "nonretriable", "unknown"}

NoExc == [kind |-> "none", id |-> 0]
Exc(k, i) == [kind |-> k, id |-> i]
CircuitBreakerError == Exc("CircuitBreakerError", 0)
TypeError == Exc("TypeError", 0)
CallbackError == Exc("callback", 0)

NoResult == [kind |-> "none", val |-> 0, exc |-> NoExc]
Return(v) == [kind |-> "return", val |-> v, exc |-> NoExc]
Raise(e) == [kind |-> "raise", val |-> 0, exc |-> e]

VARIABLES
    cb,             \* the shared CircuitBreaker: state, failure_count, success_count, last_failure_time, failure_threshold, recovery_timeout
    now,            \* datetime.now()
    pc,             \* pc[t]: where caller t is
    op,             \* op[t]: the operation caller t is running
    max_retries,    \* max_retries[t]: argument of the retry call
    on_retry,       \* on_retry[t]: "absent", or what the callback does: "returns" / "raises"
    attempt,        \* attempt[t]: loop variable of retry_with_backoff
    last_exception, \* last_exception[t]: local of retry_with_backoff; the exception being handled
    calls,          \* calls[t]: invocations of the protected callable made by the running operation
    sleeps,         \* sleeps[t]: time.sleep calls made by the running operation
    retry_log,      \* retry_log[t]: the on_retry(n, e) calls made, in order
    entry,          \* entry[t]: <<state, failure_count>> of the breaker when the retry call of t started
    admitted,       \* admitted[t]: breaker state in which the invocation in flight was admitted
    outcome,        \* outcome[t]: what the last invocation of the callable did
    result,         \* result[t]: what the operation gave its caller
    consec,         \* tracked failures recorded since the last recorded success or reset
    last_record,    \* <<breaker state before, outcome>> of the outcome recorded last
    lock,           \* self._lock: the caller inside a `with self._lock:` block whose statements are taken one by one, 0 when free
    rf_count,       \* rf_count[t]: the failure_count caller t has loaded in `self.failure_count += 1`
    opened,         \* how many times a recorded failure has set the state of a Closed breaker to Open
    retry_service,  \* the module global _retry_service: a RetryService object, 0 for None
    circuit_breakers, \* circuit_breakers[s][k]: the breaker RetryService s keeps under key k, 0 when the key is absent
    made,           \* made.services, made.breakers: the RetryService and CircuitBreaker objects constructed so far
    sg,             \* sg[t]: where caller t is in get_openai_circuit_breaker(), and its local `service`
    returned,       \* the breakers that calls of get_openai_circuit_breaker() have returned
    bo,             \* exponential_backoff_delay: its arguments and what the calls for attempt and attempt + 1 gave
    fb,             \* generate_fallback_response: its arguments and what the call gave
    rs,             \* rs.status: a RetryStatus object; rs.before: the object before the last call on it; rs.last: that call; rs.message: what that call returned when it was get_status_message()
    pair,           \* pair.a, pair.b: two runs of retry_with_circuit_breaker given the same outcomes of func at the same times; pair.now: their clock
    both            \* both.service, both.legacy: the same calls made on retry_service.py and on utils/retry_utils.py; both.now: their clock

vars == <<cb, now, pc, op, max_retries, on_retry, attempt, last_exception, calls,
          sleeps, retry_log, entry, admitted, outcome, result, consec, last_record,
          lock, rf_count, opened, retry_service, circuit_breakers, made, sg, returned,
          bo, fb, rs, pair, both>>

\* the breaker, the clock and the callers' operations on the breaker
core == <<cb, now, pc, op, max_retries, on_retry, attempt, last_exception, calls,
          sleeps, retry_log, entry, admitted, outcome, result, consec, last_record>>
\* _record_failure statement by statement
lock_vars == <<lock, rf_count, opened>>
\* the registry of breakers
registry_vars == <<retry_service, circuit_breakers, made, sg, returned>>

\* the delay computation
backoff_vars == <<bo>>

\* the fallback responder
fallback_vars == <<fb>>

\* the retry status holder
status_vars == <<rs>>

\* the two runs side by side
pair_vars == <<pair>>

\* the two modules side by side
both_vars == <<both>>

\* what the statement-level views of the module add to the state
aux == <<lock_vars, registry_vars, backoff_vars, fallback_vars, status_vars, pair_vars, both_vars>>

\* ---- CircuitBreaker ----

\* CircuitBreaker.__init__
NewCircuitBreaker(threshold, timeout) ==
    [state |-> "closed", failure_count |-> 0, success_count |-> 0,
     last_failure_time |-> None,
     failure_threshold |-> threshold, recovery_timeout |-> timeout]

\* mutant of should_attempt_reset: `>` for `>=`, the probe comes one second late
should_attempt_reset_late(b, clock) ==
    IF b.last_failure_time = None
    THEN FALSE
    ELSE clock - b.last_failure_time > b.recovery_timeout

\* CircuitBreaker._should_attempt_reset
should_attempt_reset(b, clock) ==
    IF b.last_failure_time = None
    THEN FALSE
    ELSE clock - b.last_failure_time >= b.recovery_timeout

\* mutant of record_success: the half-open branch is missing
record_success_no_close(b) ==
    [b EXCEPT !.failure_count = 0, !.success_count = @ + 1]

\* mutant of record_success: every recorded success closes the breaker
record_success_closes_always(b) ==
    [b EXCEPT !.failure_count = 0, !.success_count = @ + 1, !.state = "closed"]

\* CircuitBreaker._record_success
record_success(b) ==
    [b EXCEPT !.failure_count = 0,
              !.success_count = @ + 1,
              !.state = IF b.state = "half_open" THEN "closed" ELSE @]

\* mutant of record_failure: `>` for `>=` in the threshold test
record_failure_strict(b, clock) ==
    LET n == b.failure_count + 1 IN
    [b EXCEPT !.failure_count = n,
              !.last_failure_time = clock,
              !.state = IF b.state = "half_open" THEN "open"
                        ELSE IF b.state = "closed" /\ n > b.failure_threshold THEN "open"
                        ELSE @]

\* mutant of record_failure: last_failure_time is not set
record_failure_forgets_time(b, clock) ==
    LET n == b.failure_count + 1 IN
    [b EXCEPT !.failure_count = n,
              !.state = IF b.state = "half_open" THEN "open"
                        ELSE IF b.state = "closed" /\ n >= b.failure_threshold THEN "open"
                        ELSE @]

\* CircuitBreaker._record_failure
record_failure(b, clock) ==
    LET n == b.failure_count + 1 IN
    [b EXCEPT !.failure_count = n,
              !.last_failure_time = clock,
              !.state = IF b.state = "half_open" THEN "open"
                        ELSE IF b.state = "closed" /\ n >= b.failure_threshold THEN "open"
                        ELSE @]

\* mutant of can_execute: an open breaker admits a probe without asking
\* whether the recovery timeout has elapsed
can_execute_no_timeout(b, clock) ==
    IF b.state = "closed" THEN <<TRUE, b>>
    ELSE IF b.state = "open" THEN <<TRUE, [b EXCEPT !.state = "half_open"]>>
    ELSE <<TRUE, b>>

\* CircuitBreaker.can_execute: <<returned value, breaker afterwards>>
can_execute(b, clock) ==
    IF b.state = "closed" THEN <<TRUE, b>>
    ELSE IF b.state = "open"
         THEN IF should_attempt_reset(b, clock)
              THEN <<TRUE, [b EXCEPT !.state = "half_open"]>>
              ELSE <<FALSE, b>>
    ELSE IF b.state = "half_open" THEN <<TRUE, b>>
    ELSE <<FALSE, b>>

\* mutant of reset: failure_count is not put back to 0
reset_keeps_count(b) ==
    [b EXCEPT !.state = "closed", !.last_failure_time = None]

\* mutant of reset: success_count is cleared with the rest
reset_clears_successes(b) ==
    [b EXCEPT !.state = "closed", !.failure_count = 0, !.last_failure_time = None,
              !.success_count = 0]

\* CircuitBreaker.reset
reset(b) ==
    [b EXCEPT !.state = "closed", !.failure_count = 0, !.last_failure_time = None]


\* ---- retry_with_backoff ----

\* the values max_retries is called with (a negative one leaves range() empty)
RetryBudgets == (0 - 1)..MaxRetries
OnRetryModes == {"absent", "returns", "raises"}

\* the fields of caller t that a running operation owns, as left by `l`
SetLocals(t, l) ==
    /\ pc' = [pc EXCEPT ![t] = l.pc]
    /\ attempt' = [attempt EXCEPT ![t] = l.attempt]
    /\ last_exception' = [last_exception EXCEPT ![t] = l.last_exception]
    /\ result' = [result EXCEPT ![t] = l.result]

Locals(t) ==
    [pc |-> pc[t], attempt |-> attempt[t], last_exception |-> last_exception[t],
     result |-> result[t]]

\* retry_with_backoff, the body of one loop iteration after func() returned
\* value v: `return result`.
retry_on_return(l, v) ==
    [l EXCEPT !.pc = "done", !.result = Return(v)]

\* mutant of retry_on_raise: the budget test is off by one (attempt + 1)
retry_on_raise_off_by_one(l, e, R, m) ==
    IF e.kind \in RETRIABLE_ERRORS
    THEN IF l.attempt + 1 = R
         THEN [l EXCEPT !.last_exception = e, !.pc = "done", !.result = Raise(e)]
         ELSE [l EXCEPT !.last_exception = e,
                        !.pc = IF m # "absent" THEN "on_retry" ELSE "sleep"]
    ELSE [l EXCEPT !.pc = "done", !.result = Raise(e)]

\* mutant of retry_on_raise: NON_RETRIABLE_ERRORS are retried like the
\* retriable ones
retry_on_raise_retries_permanent(l, e, R, m) ==
    IF e.kind \in RETRIABLE_ERRORS \cup NON_RETRIABLE_ERRORS
    THEN IF l.attempt = R
         THEN [l EXCEPT !.last_exception = e, !.pc = "done", !.result = Raise(e)]
         ELSE [l EXCEPT !.last_exception = e,
                        !.pc = IF m # "absent" THEN "on_retry" ELSE "sleep"]
    ELSE [l EXCEPT !.pc = "done", !.result = Raise(e)]

\* mutant of retry_on_raise: an exception outside both sets (as
\* CircuitBreakerError is) is retried too
retry_on_raise_retries_unknown(l, e, R, m) ==
    IF e.kind \in NON_RETRIABLE_ERRORS
    THEN [l EXCEPT !.pc = "done", !.result = Raise(e)]
    ELSE IF l.attempt = R
         THEN [l EXCEPT !.last_exception = e, !.pc = "done", !.result = Raise(e)]
         ELSE [l EXCEPT !.last_exception = e,
                        !.pc = IF m # "absent" THEN "on_retry" ELSE "sleep"]

\* mutant of retry_on_raise: when the budget is used up the function
\* returns None instead of raising
retry_on_raise_swallows(l, e, R, m) ==
    IF e.kind \in RETRIABLE_ERRORS
    THEN IF l.attempt = R
         THEN [l EXCEPT !.last_exception = e, !.pc = "done", !.result = Return(0)]
         ELSE [l EXCEPT !.last_exception = e,
                        !.pc = IF m # "absent" THEN "on_retry" ELSE "sleep"]
    ELSE [l EXCEPT !.pc = "done", !.result = Raise(e)]

\* mutant of retry_on_raise: the callback and the sleep come before the test
\* for the last attempt, whose failure is raised after the loop
retry_on_raise_notifies_last(l, e, R, m) ==
    IF e.kind \in RETRIABLE_ERRORS
    THEN [l EXCEPT !.last_exception = e,
                   !.pc = IF m # "absent" THEN "on_retry" ELSE "sleep"]
    ELSE [l EXCEPT !.pc = "done", !.result = Raise(e)]

\* retry_with_backoff, the three except clauses, for exception e of func()
\* raised on attempt l.attempt with budget R and callback mode m.
retry_on_raise(l, e, R, m) ==
    IF e.kind \in RETRIABLE_ERRORS
    THEN IF l.attempt = R
         THEN [l EXCEPT !.last_exception = e, !.pc = "done", !.result = Raise(e)]
         ELSE [l EXCEPT !.last_exception = e,
                        !.pc = IF m # "absent" THEN "on_retry" ELSE "sleep"]
    ELSE IF e.kind \in NON_RETRIABLE_ERRORS
    THEN [l EXCEPT !.pc = "done", !.result = Raise(e)]
    ELSE [l EXCEPT !.pc = "done", !.result = Raise(e)]

\* what the caller of func() / execute(func) does with a value: a plain
\* execute hands it to its caller, a retry loop runs its return statement
deliver_return(o, l, v) ==
    IF o = "execute"
    THEN [l EXCEPT !.pc = "done", !.result = Return(v)]
    ELSE retry_on_return(l, v)

\* the same for an exception (retry_with_circuit_breaker re-raises whatever
\* retry_with_backoff raises, CircuitBreakerError included)
deliver_raise(o, l, e, R, m) ==
    IF o = "execute"
    THEN [l EXCEPT !.pc = "done", !.result = Raise(e)]
    ELSE retry_on_raise(l, e, R, m)

UsesBreaker(o) == o \in {"execute", "retry_with_circuit_breaker"}

\* ---- RetryStatus ----

\* RetryStatus.__init__
NewRetryStatus ==
    [is_retrying |-> FALSE, current_attempt |-> 0, max_attempts |-> 0,
     last_error |-> NoExc, next_delay |-> 0]

\* RetryStatus.start_retry
start_retry(s, max_attempts) ==
    [s EXCEPT !.is_retrying = TRUE, !.current_attempt = 0, !.max_attempts = max_attempts,
              !.last_error = NoExc, !.next_delay = 0]

\* RetryStatus.on_retry_attempt
on_retry_attempt(s, a, error, next_delay) ==
    [s EXCEPT !.current_attempt = a, !.last_error = error, !.next_delay = next_delay]

\* RetryStatus.finish_retry
finish_retry(s, success) ==
    [s EXCEPT !.is_retrying = FALSE,
              !.current_attempt = IF success THEN 0 ELSE @,
              !.last_error = IF success THEN NoExc ELSE @]

\* RetryStatus.get_status_message: the empty string is <<>>, otherwise the
\* pieces of the formatted text
get_status_message(s) ==
    IF ~s.is_retrying THEN <<>>
    ELSE LET error_name == IF s.last_error # NoExc THEN s.last_error.kind ELSE "Error" IN
         IF s.next_delay > 0
         THEN <<"Nouvelle tentative", error_name, "Tentative", s.current_attempt,
                s.max_attempts, "dans", s.next_delay>>
         ELSE <<"Nouvelle tentative", error_name, "Tentative", s.current_attempt,
                s.max_attempts>>

\* the status object, no call made on it yet
NoStatusCall == [op |-> "none", success |-> TRUE, attempt |-> 0, max_attempts |-> 0]
NewStatus ==
    [status |-> NewRetryStatus, before |-> NewRetryStatus, last |-> NoStatusCall,
     message |-> <<>>]

\* ---- CircuitBreaker.execute ----

\* mutant of execute_record: tracked exceptions pass through unrecorded
execute_record_untracked(b, o, clock) ==
    IF o = "ok" THEN record_success(b) ELSE b

\* mutant of execute_record: every exception of func counts as a failure
execute_record_counts_all(b, o, clock) ==
    IF o = "ok" THEN record_success(b) ELSE record_failure(b, clock)

\* breaker bookkeeping of execute for outcome o of func
execute_record(b, o, clock) ==
    IF o = "ok" THEN record_success(b)
    ELSE IF o \in RETRIABLE_ERRORS THEN record_failure(b, clock)
    ELSE b

\* ---- two runs of retry_with_circuit_breaker side by side ----

\* mutant of status_callback: the callback also moves the loop on by one
\* attempt
status_callback_skips_attempt(r) ==
    [r EXCEPT !.status = on_retry_attempt(@, r.attempt + 1, r.last_exception, 1),
              !.attempt = @ + 1]

\* on_retry_callback of the application: retry_status.on_retry_attempt(
\* attempt, error, next_delay), on the RetryStatus of run r
status_callback(r) ==
    [r EXCEPT !.status = on_retry_attempt(@, r.attempt + 1, r.last_exception, 1)]

\* a run: its own breaker, the operation called, the locals of
\* retry_with_backoff, the callback it was given ("status" updates a
\* RetryStatus), the RetryStatus, the number of invocations of func and when
\* they were made
NewRun(T, m) ==
    [cb |-> NewCircuitBreaker(T, RecoveryTimeout), op |-> "retry_with_circuit_breaker",
     pc |-> "idle", attempt |-> 0,
     last_exception |-> NoExc, result |-> NoResult, max_retries |-> 0, on_retry |-> m,
     status |-> NewRetryStatus, calls |-> 0, invoked |-> <<>>]

\* r.op(func, max_retries=R, on_retry=r.on_retry) is called; the
\* application calls start_retry first
run_start(r, R) ==
    [r EXCEPT !.pc = "loop", !.attempt = 0, !.last_exception = NoExc, !.result = NoResult,
              !.max_retries = R, !.calls = 0, !.invoked = <<>>,
              !.status = IF r.on_retry = "status" THEN start_retry(@, R + 1) ELSE @]

\* the next step of run r at time clock, o being what func does if the step
\* is its invocation
run_step(r, clock, o) ==
    CASE r.pc = "loop" ->
            IF r.attempt > r.max_retries
            THEN [r EXCEPT !.pc = "done",
                           !.result = IF r.last_exception # NoExc
                                      THEN Raise(r.last_exception) ELSE Return(0)]
            ELSE IF UsesBreaker(r.op)
            THEN [r EXCEPT !.pc = "can_execute"]
            ELSE [r EXCEPT !.pc = "call", !.calls = @ + 1,
                           !.invoked = Append(@, <<r.attempt, clock>>)]
      [] r.pc = "can_execute" ->
            LET c == can_execute(r.cb, clock) IN
            IF c[1]
            THEN [r EXCEPT !.cb = c[2], !.pc = "call", !.calls = @ + 1,
                           !.invoked = Append(@, <<r.attempt, clock>>)]
            ELSE deliver_raise(r.op, [r EXCEPT !.cb = c[2]],
                               CircuitBreakerError, r.max_retries, r.on_retry)
      [] r.pc = "call" ->
            LET r2 == IF UsesBreaker(r.op)
                      THEN [r EXCEPT !.cb = execute_record(r.cb, o, clock)] ELSE r IN
            IF o = "ok"
            THEN deliver_return(r.op, r2, r2.calls)
            ELSE deliver_raise(r.op, r2, Exc(o, r2.calls), r.max_retries, r.on_retry)
      [] r.pc = "on_retry" ->
            IF r.on_retry = "status"
            THEN [status_callback(r) EXCEPT !.pc = "sleep"]
            ELSE IF r.on_retry = "raises"
            THEN [r EXCEPT !.pc = "done", !.result = Raise(CallbackError)]
            ELSE [r EXCEPT !.pc = "sleep"]
      [] r.pc = "sleep" -> [r EXCEPT !.attempt = @ + 1, !.pc = "loop"]
      [] OTHER -> r

\* the call is over; the application calls finish_retry
run_finish(r) ==
    [r EXCEPT !.pc = "idle",
              !.status = IF r.on_retry = "status"
                         THEN finish_retry(@, r.result.kind = "return") ELSE @]

\* run a with a callback that updates a RetryStatus, run b without
NewPair(T) == [a |-> NewRun(T, "status"), b |-> NewRun(T, "absent"), now |-> 0]

\* ---- utils/retry_utils.py, the module retry_service.py was moved from ----

\* utils.retry_utils.CircuitBreaker.__init__
legacy_NewCircuitBreaker(threshold, timeout) ==
    [state |-> "closed", failure_count |-> 0, success_count |-> 0,
     last_failure_time |-> None,
     failure_threshold |-> threshold, recovery_timeout |-> timeout]

\* utils.retry_utils.CircuitBreaker._should_attempt_reset
legacy_should_attempt_reset(b, clock) ==
    IF b.last_failure_time = None
    THEN FALSE
    ELSE clock - b.last_failure_time >= b.recovery_timeout

\* utils.retry_utils.CircuitBreaker._record_success
legacy_record_success(b) ==
    LET b1 == [b EXCEPT !.failure_count = 0, !.success_count = @ + 1] IN
    IF b1.state = "half_open" THEN [b1 EXCEPT !.state = "closed"] ELSE b1

\* utils.retry_utils.CircuitBreaker._record_failure
legacy_record_failure(b, clock) ==
    LET b1 == [b EXCEPT !.failure_count = @ + 1, !.last_failure_time = clock] IN
    IF b1.state = "half_open" THEN [b1 EXCEPT !.state = "open"]
    ELSE IF b1.state = "closed" /\ b1.failure_count >= b1.failure_threshold
    THEN [b1 EXCEPT !.state = "open"]
    ELSE b1

\* mutant of legacy_can_execute: a HalfOpen breaker admits nobody
legacy_can_execute_half_open_refuses(b, clock) ==
    IF b.state = "closed" THEN <<TRUE, b>>
    ELSE IF b.state = "open"
         THEN IF legacy_should_attempt_reset(b, clock)
              THEN <<TRUE, [b EXCEPT !.state = "half_open"]>>
              ELSE <<FALSE, b>>
    ELSE <<FALSE, b>>

\* utils.retry_utils.CircuitBreaker.can_execute: <<returned value, breaker
\* afterwards>>
legacy_can_execute(b, clock) ==
    IF b.state = "closed" THEN <<TRUE, b>>
    ELSE IF b.state = "open"
         THEN IF legacy_should_attempt_reset(b, clock)
              THEN <<TRUE, [b EXCEPT !.state = "half_open"]>>
              ELSE <<FALSE, b>>
    ELSE IF b.state = "half_open" THEN <<TRUE, b>>
    ELSE <<FALSE, b>>

\* utils.retry_utils.CircuitBreaker.execute: the bookkeeping for outcome o
legacy_execute_record(b, o, clock) ==
    IF o = "ok" THEN legacy_record_success(b)
    ELSE IF o \in RETRIABLE_ERRORS THEN legacy_record_failure(b, clock)
    ELSE b

\* utils.retry_utils.CircuitBreaker.reset
legacy_reset(b) ==
    [b EXCEPT !.state = "closed", !.failure_count = 0, !.last_failure_time = None]

\* utils.retry_utils.CircuitBreaker.get_state
legacy_get_state(b, clock) ==
    LET elapsed == clock - b.last_failure_time IN
    [state |-> b.state,
     failure_count |-> b.failure_count,
     success_count |-> b.success_count,
     failure_threshold |-> b.failure_threshold,
     remaining_timeout |->
         IF b.last_failure_time # None /\ b.state = "open"
         THEN (IF b.recovery_timeout - elapsed > 0 THEN b.recovery_timeout - elapsed ELSE 0)
         ELSE 0,
     last_failure_time |-> b.last_failure_time]

\* utils.retry_utils.retry_with_backoff: `return result`
legacy_retry_on_return(l, v) ==
    [l EXCEPT !.pc = "done", !.result = Return(v)]

\* utils.retry_utils.retry_with_backoff: the three except clauses
legacy_retry_on_raise(l, e, R, m) ==
    IF e.kind \in RETRIABLE_ERRORS
    THEN LET l1 == [l EXCEPT !.last_exception = e] IN
         IF l1.attempt = R
         THEN [l1 EXCEPT !.pc = "done", !.result = Raise(e)]
         ELSE IF m # "absent"
         THEN [l1 EXCEPT !.pc = "on_retry"]
         ELSE [l1 EXCEPT !.pc = "sleep"]
    ELSE [l EXCEPT !.pc = "done", !.result = Raise(e)]

\* the next step of run r of execute, retry_with_backoff or
\* retry_with_circuit_breaker of utils.retry_utils at time clock, o being
\* what func does if the step is its invocation
legacy_run_step(r, clock, o) ==
    CASE r.pc = "loop" ->
            IF r.attempt > r.max_retries
            THEN IF r.last_exception # NoExc
                 THEN [r EXCEPT !.pc = "done", !.result = Raise(r.last_exception)]
                 ELSE [r EXCEPT !.pc = "done", !.result = Return(0)]
            ELSE IF r.op = "retry_with_circuit_breaker"
            THEN [r EXCEPT !.pc = "can_execute"]
            ELSE [r EXCEPT !.pc = "call", !.calls = @ + 1,
                           !.invoked = Append(@, <<r.attempt, clock>>)]
      [] r.pc = "can_execute" ->
            LET c == legacy_can_execute(r.cb, clock)
                r1 == [r EXCEPT !.cb = c[2]]
            IN  IF c[1]
                THEN [r1 EXCEPT !.pc = "call", !.calls = @ + 1,
                                !.invoked = Append(@, <<r.attempt, clock>>)]
                ELSE IF r.op = "execute"
                THEN [r1 EXCEPT !.pc = "done", !.result = Raise(CircuitBreakerError)]
                ELSE legacy_retry_on_raise(r1, CircuitBreakerError, r.max_retries, r.on_retry)
      [] r.pc = "call" ->
            LET r1 == IF r.op = "retry_with_backoff" THEN r
                      ELSE [r EXCEPT !.cb = legacy_execute_record(r.cb, o, clock)]
                e == Exc(o, r.calls)
            IN  IF r.op = "execute"
                THEN IF o = "ok"
                     THEN [r1 EXCEPT !.pc = "done", !.result = Return(r.calls)]
                     ELSE [r1 EXCEPT !.pc = "done", !.result = Raise(e)]
                ELSE IF o = "ok"
                     THEN legacy_retry_on_return(r1, r.calls)
                     ELSE legacy_retry_on_raise(r1, e, r.max_retries, r.on_retry)
      [] r.pc = "on_retry" ->
            IF r.on_retry = "raises"
            THEN [r EXCEPT !.pc = "done", !.result = Raise(CallbackError)]
            ELSE [r EXCEPT !.pc = "sleep"]
      [] r.pc = "sleep" -> [r EXCEPT !.attempt = @ + 1, !.pc = "loop"]
      [] OTHER -> r

\* a caller calls operation o of either module with max_retries R and
\* callback m
call_start(r, o, R, m) ==
    [r EXCEPT !.op = o, !.pc = IF o = "execute" THEN "can_execute" ELSE "loop",
              !.attempt = 0, !.last_exception = NoExc, !.result = NoResult,
              !.max_retries = R, !.on_retry = m, !.calls = 0, !.invoked = <<>>]

\* the call has returned or raised and its caller goes on; nothing of the
\* finished call is kept
call_finish(r) ==
    [r EXCEPT !.op = "retry_with_circuit_breaker", !.pc = "idle", !.attempt = 0,
              !.last_exception = NoExc, !.result = NoResult, !.max_retries = 0,
              !.on_retry = "absent", !.calls = 0, !.invoked = <<>>]

\* the same caller using retry_service.py (service) and utils/retry_utils.py
\* (legacy), each with its own breaker, and their clock
NewBoth(T) ==
    [service |-> NewRun(T, "absent"),
     legacy |-> [NewRun(T, "absent") EXCEPT !.cb = legacy_NewCircuitBreaker(T, RecoveryTimeout)],
     now |-> 0]

\* ---- initial state ----

\* the RetryService objects that can come to exist: a caller constructs one
\* only if it has seen _retry_service to be None
Services == 1..NumCallers
\* the keys create_circuit_breaker and get_openai_circuit_breaker store under
BreakerKeys == {"OpenAI_API", "openai"}

InitBreaker ==
    /\ \E T \in 1..MaxThreshold : cb = NewCircuitBreaker(T, RecoveryTimeout)
    /\ now = 0
    /\ pc = [t \in Callers |-> "idle"]
    /\ op = [t \in Callers |-> "none"]
    /\ max_retries = [t \in Callers |-> 0]
    /\ on_retry = [t \in Callers |-> "absent"]
    /\ attempt = [t \in Callers |-> 0]
    /\ last_exception = [t \in Callers |-> NoExc]
    /\ calls = [t \in Callers |-> 0]
    /\ sleeps = [t \in Callers |-> 0]
    /\ retry_log = [t \in Callers |-> <<>>]
    /\ entry = [t \in Callers |-> <<"none", 0>>]
    /\ admitted = [t \in Callers |-> "none"]
    /\ outcome = [t \in Callers |-> "none"]
    /\ result = [t \in Callers |-> NoResult]
    /\ consec = 0
    /\ last_record = <<"none", "none">>
    /\ lock = 0
    /\ rf_count = [t \in Callers |-> 0]
    /\ opened = 0
    /\ retry_service = 0
    /\ circuit_breakers = [s \in Services |-> [k \in BreakerKeys |-> 0]]
    /\ made = [services |-> 0, breakers |-> 0]
    /\ sg = [t \in Callers |-> [pc |-> "idle", service |-> 0]]
    /\ returned = {}

\* no delay is being computed
NoBackoff ==
    [attempt |-> 0, base_delay |-> 0, max_delay |-> 0, first |-> NoResult, second |-> NoResult]

\* no fallback response has been asked for
NoFallback ==
    [question |-> [is_str |-> TRUE, hits |-> {}], user_level |-> "beginner",
     result |-> [kind |-> "none"]]

\* no RetryStatus object is being watched
NoStatus == [status |-> "none"]

\* no runs are being compared
NoPair == [a |-> "none"]
NoBoth == [service |-> "none"]

\* nothing but the breaker and its callers
NoSideViews == rs = NoStatus /\ pair = NoPair /\ both = NoBoth

Init ==
    /\ InitBreaker
    /\ bo = NoBackoff
    /\ fb = NoFallback
    /\ NoSideViews

\* ---- operations ----

\* caller t, whose previous operation (if any) is over, starts operation o
\* with arguments R (max_retries) and m (on_retry) at location l
Begin(t, o, R, m, l, r, en) ==
    /\ pc[t] = "idle"
    /\ entry' = [entry EXCEPT ![t] = en]
    /\ pc' = [pc EXCEPT ![t] = l]
    /\ op' = [op EXCEPT ![t] = o]
    /\ max_retries' = [max_retries EXCEPT ![t] = R]
    /\ on_retry' = [on_retry EXCEPT ![t] = m]
    /\ attempt' = [attempt EXCEPT ![t] = 0]
    /\ last_exception' = [last_exception EXCEPT ![t] = NoExc]
    /\ calls' = [calls EXCEPT ![t] = 0]
    /\ sleeps' = [sleeps EXCEPT ![t] = 0]
    /\ retry_log' = [retry_log EXCEPT ![t] = <<>>]
    /\ admitted' = [admitted EXCEPT ![t] = "none"]
    /\ outcome' = [outcome EXCEPT ![t] = "none"]
    /\ result' = [result EXCEPT ![t] = r]

\* circuit_breaker.execute(func) called directly
StartExecute(t) ==
    /\ Begin(t, "execute", 0, "absent", "can_execute", NoResult, <<"none", 0>>)
    /\ UNCHANGED <<cb, now, consec, last_record>>
    /\ UNCHANGED aux

\* retry_with_backoff(func, max_retries=R, on_retry=m): last_exception = None
StartRetryWithBackoff(t) ==
    /\ \E R \in RetryBudgets, m \in OnRetryModes :
          Begin(t, "retry_with_backoff", R, m, "loop", NoResult, <<"none", 0>>)
    /\ UNCHANGED <<cb, now, consec, last_record>>
    /\ UNCHANGED aux

\* retry_with_circuit_breaker(func, max_retries=R, on_retry=m)
StartRetryWithCircuitBreaker(t) ==
    /\ \E R \in RetryBudgets, m \in OnRetryModes :
          Begin(t, "retry_with_circuit_breaker", R, m, "loop", NoResult, <<cb.state, cb.failure_count>>)
    /\ UNCHANGED <<cb, now, consec, last_record>>
    /\ UNCHANGED aux

\* retry_with_backoff: `for attempt in range(max_retries + 1)` and the
\* statements after the loop; the loop body starts by invoking func, which
\* for retry_with_circuit_breaker is wrapped_func -> circuit_breaker.execute
LoopHead(t) ==
    /\ pc[t] = "loop"
    /\ IF attempt[t] > max_retries[t]
       THEN /\ pc' = [pc EXCEPT ![t] = "done"]
            /\ result' = [result EXCEPT ![t] =
                   IF last_exception[t] # NoExc THEN Raise(last_exception[t])
                   ELSE Return(0)]
            /\ UNCHANGED calls
       ELSE IF op[t] = "retry_with_circuit_breaker"
       THEN /\ pc' = [pc EXCEPT ![t] = "can_execute"]
            /\ UNCHANGED <<result, calls>>
       ELSE /\ pc' = [pc EXCEPT ![t] = "call"]
            /\ calls' = [calls EXCEPT ![t] = @ + 1]
            /\ UNCHANGED result
    /\ UNCHANGED <<cb, now, op, max_retries, on_retry, attempt, last_exception,
                   sleeps, retry_log, entry, admitted, outcome, consec, last_record>>
    /\ UNCHANGED aux

\* CircuitBreaker.execute: `if not self.can_execute():`; when admitted, func
\* is invoked
ExecuteCheck(t) ==
    /\ pc[t] = "can_execute"
    /\ LET r == can_execute(cb, now) IN
         /\ cb' = r[2]
         /\ IF r[1]
            THEN /\ pc' = [pc EXCEPT ![t] = "call"]
                 /\ calls' = [calls EXCEPT ![t] = @ + 1]
                 /\ admitted' = [admitted EXCEPT ![t] = r[2].state]
            ELSE /\ pc' = [pc EXCEPT ![t] = "denied"]
                 /\ UNCHANGED <<calls, admitted>>
    /\ UNCHANGED <<now, op, max_retries, on_retry, attempt, last_exception,
                   sleeps, retry_log, entry, outcome, result, consec, last_record>>
    /\ UNCHANGED aux

\* CircuitBreaker.execute: `if self.last_failure_time:` read without the
\* lock; when it is None the error is raised with remaining_time =
\* recovery_timeout
DeniedRead(t) ==
    /\ pc[t] = "denied"
    /\ IF cb.last_failure_time # None
       THEN /\ pc' = [pc EXCEPT ![t] = "denied_elapsed"]
            /\ UNCHANGED <<attempt, last_exception, result>>
       ELSE SetLocals(t, deliver_raise(op[t], Locals(t), CircuitBreakerError,
                                       max_retries[t], on_retry[t]))
    /\ UNCHANGED <<cb, now, op, max_retries, on_retry, calls, sleeps, retry_log, entry,
                   admitted, outcome, consec, last_record>>
    /\ UNCHANGED aux

\* CircuitBreaker.execute: `elapsed = (datetime.now() - self.last_failure_time)`
\* reads the field a second time, again without the lock: a datetime minus
\* None is a TypeError; otherwise CircuitBreakerError is raised
DeniedRaise(t) ==
    /\ pc[t] = "denied_elapsed"
    /\ SetLocals(t, deliver_raise(op[t], Locals(t),
                    IF cb.last_failure_time = None THEN TypeError
                    ELSE CircuitBreakerError,
                    max_retries[t], on_retry[t]))
    /\ UNCHANGED <<cb, now, op, max_retries, on_retry, calls, sleeps, retry_log, entry,
                   admitted, outcome, consec, last_record>>
    /\ UNCHANGED aux

\* func() returns or raises; under execute the outcome is recorded under the
\* lock (success_count and failure_count are capped by the bounds); then
\* the value or exception goes to the caller of func / of execute
FuncReturns(t) ==
    /\ pc[t] = "call"
    /\ \E o \in FuncOutcomes :
         /\ (UsesBreaker(op[t]) /\ o = "ok") => cb.success_count < MaxSuccess
         /\ (UsesBreaker(op[t]) /\ o \in RETRIABLE_ERRORS) => cb.failure_count < MaxFailures
         /\ outcome' = [outcome EXCEPT ![t] = o]
         /\ IF UsesBreaker(op[t])
            THEN /\ cb' = execute_record(cb, o, now)
                 /\ last_record' = IF o \in {"ok"} \cup RETRIABLE_ERRORS
                                   THEN <<cb.state, o>> ELSE last_record
                 /\ consec' = IF o = "ok" THEN 0
                              ELSE IF o = "retriable" THEN consec + 1
                              ELSE consec
            ELSE UNCHANGED <<cb, consec, last_record>>
         /\ SetLocals(t, IF o = "ok"
                         THEN deliver_return(op[t], Locals(t), calls[t])
                         ELSE deliver_raise(op[t], Locals(t), Exc(o, calls[t]),
                                            max_retries[t], on_retry[t]))
    /\ UNCHANGED <<now, op, max_retries, on_retry, calls, sleeps, retry_log, entry,
                   admitted>>
    /\ UNCHANGED aux

\* retry_with_backoff: `on_retry(attempt + 1, e)`; an exception of the
\* callback leaves the except clause and the function
OnRetry(t) ==
    /\ pc[t] = "on_retry"
    /\ retry_log' = [retry_log EXCEPT ![t] = Append(@, <<attempt[t] + 1, last_exception[t]>>)]
    /\ IF on_retry[t] = "raises"
       THEN /\ pc' = [pc EXCEPT ![t] = "done"]
            /\ result' = [result EXCEPT ![t] = Raise(CallbackError)]
       ELSE /\ pc' = [pc EXCEPT ![t] = "sleep"]
            /\ UNCHANGED result
    /\ UNCHANGED <<cb, now, op, max_retries, on_retry, attempt, last_exception,
                   calls, sleeps, admitted, entry, outcome, consec, last_record>>
    /\ UNCHANGED aux

\* retry_with_backoff: `time.sleep(delay)`, then the next iteration; how long
\* the caller sleeps is left to Tick, which may fire any number of times
\* while pc = "sleep"
Sleep(t) ==
    /\ pc[t] = "sleep"
    /\ sleeps' = [sleeps EXCEPT ![t] = @ + 1]
    /\ attempt' = [attempt EXCEPT ![t] = @ + 1]
    /\ pc' = [pc EXCEPT ![t] = "loop"]
    /\ UNCHANGED <<cb, now, op, max_retries, on_retry, last_exception, calls,
                   retry_log, entry, admitted, outcome, result, consec, last_record>>
    /\ UNCHANGED aux

\* circuit_breaker.can_execute() called directly; the boolean it returns is
\* kept as 1 (True) or 0 (False)
CallCanExecute(t) ==
    /\ LET r == can_execute(cb, now) IN
         /\ cb' = r[2]
         /\ Begin(t, "can_execute", 0, "absent", "done", Return(IF r[1] THEN 1 ELSE 0), <<"none", 0>>)
    /\ UNCHANGED <<now, consec, last_record>>
    /\ UNCHANGED aux

\* circuit_breaker.reset() called directly (the sidebar's reset button)
CallReset(t) ==
    /\ cb' = reset(cb)
    /\ consec' = 0
    /\ UNCHANGED last_record
    /\ Begin(t, "reset", 0, "absent", "done", Return(0), <<"none", 0>>)
    /\ UNCHANGED now
    /\ UNCHANGED aux

\* mutant of get_state: the remaining time is computed in every state
get_state_any_state(b, clock) ==
    [state |-> b.state,
     failure_count |-> b.failure_count,
     success_count |-> b.success_count,
     failure_threshold |-> b.failure_threshold,
     remaining_timeout |->
         IF b.last_failure_time # None
         THEN IF b.recovery_timeout - (clock - b.last_failure_time) >= 0
              THEN b.recovery_timeout - (clock - b.last_failure_time)
              ELSE 0
         ELSE 0,
     last_failure_time |-> b.last_failure_time]

\* CircuitBreaker.get_state: the dictionary it returns (without the name);
\* remaining_timeout = max(0, recovery_timeout - elapsed) for an Open breaker
\* that has a last_failure_time, 0 otherwise
get_state(b, clock) ==
    [state |-> b.state,
     failure_count |-> b.failure_count,
     success_count |-> b.success_count,
     failure_threshold |-> b.failure_threshold,
     remaining_timeout |->
         IF b.last_failure_time # None /\ b.state = "open"
         THEN IF b.recovery_timeout - (clock - b.last_failure_time) >= 0
              THEN b.recovery_timeout - (clock - b.last_failure_time)
              ELSE 0
         ELSE 0,
     last_failure_time |-> b.last_failure_time]

\* circuit_breaker.get_state() called directly (the sidebar's status
\* display); of the snapshot the caller keeps remaining_timeout
CallGetState(t) ==
    /\ Begin(t, "get_state", 0, "absent", "done",
             Return(get_state(cb, now).remaining_timeout), <<"none", 0>>)
    /\ UNCHANGED <<cb, now, consec, last_record>>
    /\ UNCHANGED aux

\* the operation of caller t has returned or raised and its caller goes on;
\* nothing of the finished call is kept
Finish(t) ==
    /\ pc[t] = "done"
    /\ pc' = [pc EXCEPT ![t] = "idle"]
    /\ op' = [op EXCEPT ![t] = "none"]
    /\ max_retries' = [max_retries EXCEPT ![t] = 0]
    /\ on_retry' = [on_retry EXCEPT ![t] = "absent"]
    /\ attempt' = [attempt EXCEPT ![t] = 0]
    /\ last_exception' = [last_exception EXCEPT ![t] = NoExc]
    /\ calls' = [calls EXCEPT ![t] = 0]
    /\ sleeps' = [sleeps EXCEPT ![t] = 0]
    /\ retry_log' = [retry_log EXCEPT ![t] = <<>>]
    /\ entry' = [entry EXCEPT ![t] = <<"none", 0>>]
    /\ admitted' = [admitted EXCEPT ![t] = "none"]
    /\ outcome' = [outcome EXCEPT ![t] = "none"]
    /\ result' = [result EXCEPT ![t] = NoResult]
    /\ UNCHANGED <<cb, now, consec, last_record>>
    /\ UNCHANGED aux

\* the clock advances
Tick ==
    /\ now < MaxTime
    /\ now' = now + 1
    /\ UNCHANGED <<cb, pc, op, max_retries, on_retry, attempt, last_exception,
                   calls, sleeps, retry_log, entry, admitted, outcome, result, consec, last_record>>
    /\ UNCHANGED aux

\* callers sharing the breaker through execute, can_execute, reset and
\* get_state
Next ==
    \/ \E t \in Callers : StartExecute(t)
    \/ \E t \in Callers : ExecuteCheck(t)
    \/ \E t \in Callers : DeniedRead(t)
    \/ \E t \in Callers : DeniedRaise(t)
    \/ \E t \in Callers : FuncReturns(t)
    \/ \E t \in Callers : CallCanExecute(t)
    \/ \E t \in Callers : CallReset(t)
    \/ \E t \in Callers : CallGetState(t)
    \/ \E t \in Callers : Finish(t)
    \/ Tick

Spec == Init /\ [][Next]_vars

\* one caller making retry calls one after the other, with and without the
\* breaker, and resetting the breaker between them
RetryCallers == {1}

NextRetry ==
    \/ \E t \in RetryCallers : StartRetryWithBackoff(t)
    \/ \E t \in RetryCallers : StartRetryWithCircuitBreaker(t)
    \/ \E t \in RetryCallers : LoopHead(t)
    \/ \E t \in RetryCallers : ExecuteCheck(t)
    \/ \E t \in RetryCallers : DeniedRead(t)
    \/ \E t \in RetryCallers : DeniedRaise(t)
    \/ \E t \in RetryCallers : FuncReturns(t)
    \/ \E t \in RetryCallers : OnRetry(t)
    \/ \E t \in RetryCallers : Sleep(t)
    \/ \E t \in RetryCallers : CallReset(t)
    \/ \E t \in RetryCallers : Finish(t)
    \/ Tick

SpecRetry == Init /\ [][NextRetry]_vars


\* ---- vocabulary of the properties ----

\* the recovery timeout has elapsed since the last recorded failure
Elapsed == cb.last_failure_time # None
           /\ now - cb.last_failure_time >= cb.recovery_timeout

\* in this step the callable invoked by t returns or raises
FuncDone(t) == pc[t] = "call" /\ pc'[t] # "call"

\* in this step t runs can_execute, directly or at the start of execute
CanExecuteStep(t) ==
    \/ pc[t] = "idle" /\ pc'[t] = "done" /\ op'[t] = "can_execute"
    \/ pc[t] = "can_execute" /\ pc'[t] # "can_execute"

\* ... and this is what it returned
CanExecuteReturned(t) ==
    IF pc[t] = "idle" THEN result'[t].val = 1 ELSE pc'[t] = "call"

\* t is in the part of execute that follows a false can_execute
InDenial(t) == pc[t] \in {"denied", "denied_elapsed"}

\* invocations of the callable admitted by the breaker and not yet recorded
InFlight == {t \in Callers : pc[t] = "call" /\ UsesBreaker(op[t])}

\* C1: a Closed breaker has recorded fewer than failure_threshold tracked
\* failures since the last success (and failure_count is that number); it
\* goes Closed -> Open in the step that records the failure_threshold-th
\* consecutive tracked failure and in no other step; a recorded success puts
\* failure_count back to 0.
C1_TripsAtThreshold ==
    /\ [](cb.state = "closed" =>
            consec < cb.failure_threshold /\ cb.failure_count = consec)
    /\ [][(cb.state = "closed" /\ cb'.state = "open") =>
             (consec' = consec + 1 /\ consec' = cb.failure_threshold)]_vars
    /\ [][(cb.state = "closed" /\ consec' = cb.failure_threshold) =>
             cb'.state = "open"]_vars
    /\ [][\A t \in Callers :
             (FuncDone(t) /\ UsesBreaker(op[t]) /\ outcome'[t] = "ok") =>
                 cb'.failure_count = 0]_vars

\* a breaker that needs two failures has opened although a success was
\* recorded before
C1_Witness ==
    /\ cb.state = "open"
    /\ cb.failure_threshold >= 2
    /\ consec = cb.failure_threshold
    /\ cb.success_count >= 1

\* C2: every step of an execute(f) call that finds the breaker Open before
\* the recovery timeout (the false can_execute and what follows it while the
\* breaker stays Open) leaves the breaker as it is and does not invoke f, and
\* the call ends by raising CircuitBreakerError.
C2_OpenFailsFast ==
    [][\A t \in Callers :
         ( /\ op[t] = "execute"
           /\ pc'[t] # pc[t]
           /\ cb.state = "open"
           /\ \/ pc[t] = "can_execute" /\ ~Elapsed
              \/ InDenial(t) )
         => /\ cb' = cb
            /\ calls'[t] = 0
            /\ pc'[t] \in {"denied", "denied_elapsed", "done"}
            /\ pc'[t] = "done" => result'[t] = Raise(CircuitBreakerError)]_vars

\* an execute call was refused by the Open breaker
C2_Witness ==
    \E t \in Callers :
        /\ op[t] = "execute" /\ pc[t] = "done"
        /\ result[t] = Raise(CircuitBreakerError)
        /\ calls[t] = 0
        /\ cb.state = "open" /\ ~Elapsed

\* C3: a can_execute on an Open breaker returns false and changes nothing
\* before the recovery timeout has elapsed since last_failure_time; at or
\* after that moment it returns true and makes the breaker HalfOpen; every
\* Open -> HalfOpen transition is the step of exactly one such call, whatever
\* the interleaving of the callers.
C3_ProbeAdmission ==
    /\ [][\A t \in Callers :
            (CanExecuteStep(t) /\ cb.state = "open") =>
                IF Elapsed
                THEN CanExecuteReturned(t) = TRUE
                     /\ cb' = [cb EXCEPT !.state = "half_open"]
                ELSE CanExecuteReturned(t) = FALSE /\ cb' = cb]_vars
    /\ [][(cb.state = "open" /\ cb'.state = "half_open") =>
            Cardinality({t \in Callers :
                CanExecuteStep(t) /\ CanExecuteReturned(t) = TRUE}) = 1]_vars

\* a direct can_execute made the breaker HalfOpen exactly at the timeout
\* while another caller was about to ask too
C3_Witness ==
    \E t, u \in Callers :
        /\ t # u
        /\ op[t] = "can_execute" /\ pc[t] = "done" /\ result[t] = Return(1)
        /\ cb.state = "half_open"
        /\ now - cb.last_failure_time = cb.recovery_timeout
        /\ pc[u] = "can_execute"

\* C4: when the outcome of an invocation is recorded while the breaker is
\* HalfOpen, a success makes it Closed with failure_count 0 and a tracked
\* failure makes it Open, whatever failure_count is.
C4_HalfOpenDecides ==
    [][\A t \in Callers :
         (FuncDone(t) /\ UsesBreaker(op[t]) /\ cb.state = "half_open") =>
            /\ outcome'[t] = "ok" =>
                  (cb'.state = "closed" /\ cb'.failure_count = 0)
            /\ outcome'[t] \in RETRIABLE_ERRORS => cb'.state = "open"]_vars

\* a failure recorded in HalfOpen opened the breaker with failure_count
\* below the threshold
C4_Witness ==
    \E t \in Callers :
        /\ pc[t] = "done" /\ outcome[t] \in RETRIABLE_ERRORS
        /\ last_record = <<"half_open", outcome[t]>>
        /\ cb.state = "open"
        /\ cb.failure_count < cb.failure_threshold

\* a success recorded in HalfOpen closed the breaker
C4_WitnessSuccess ==
    \E t \in Callers :
        /\ pc[t] = "done" /\ outcome[t] = "ok"
        /\ last_record = <<"half_open", "ok">>
        /\ cb.state = "closed" /\ cb.failure_count = 0

\* C5: while the breaker is HalfOpen at most one execution admitted as a
\* probe is in flight.
C5_SingleProbe ==
    cb.state = "half_open" =>
        Cardinality({t \in InFlight : admitted[t] = "half_open"}) <= 1


Min(a, b) == IF a <= b THEN a ELSE b

RetryOps == {"retry_with_backoff", "retry_with_circuit_breaker"}

\* C6: a finished retry_with_backoff(max_retries = R >= 0), whose on_retry
\* (if any) returns normally, on a callable that raised retriable errors
\* until it succeeded: after a success on invocation k+1 it made k+1 <= R+1
\* invocations and k sleeps and returns that invocation's value; when the
\* callable never succeeded it made R+1 invocations and R sleeps and raises
\* the exception object of invocation R+1.
C6_AttemptsAndSleeps ==
    \A t \in Callers :
        ( /\ pc[t] = "done" /\ op[t] = "retry_with_backoff"
          /\ max_retries[t] >= 0 /\ on_retry[t] # "raises" )
        => /\ outcome[t] = "ok" =>
                 /\ calls[t] <= max_retries[t] + 1
                 /\ sleeps[t] = calls[t] - 1
                 /\ result[t] = Return(calls[t])
           /\ outcome[t] \in RETRIABLE_ERRORS =>
                 /\ calls[t] = max_retries[t] + 1
                 /\ sleeps[t] = max_retries[t]
                 /\ result[t] = Raise(Exc(outcome[t], max_retries[t] + 1))

\* with R = 2 the callable failed twice and succeeded on the third invocation
C6_Witness ==
    \E t \in Callers :
        /\ pc[t] = "done" /\ op[t] = "retry_with_backoff"
        /\ max_retries[t] = 2 /\ outcome[t] = "ok"
        /\ calls[t] = 3 /\ sleeps[t] = 2 /\ result[t] = Return(3)

\* C7: when an invocation made by a retry call raises a non-retriable error
\* or an error outside both sets, the call raises that exception object in
\* the same step, without a sleep or an on_retry call, and a finished call
\* makes no invocation, sleep or on_retry call any more.
C7_PermanentErrorsNotRetried ==
    /\ [][\A t \in Callers :
            ( /\ FuncDone(t) /\ op[t] \in RetryOps
              /\ outcome'[t] \in {"nonretriable", "unknown"} )
            => /\ pc'[t] = "done"
               /\ result'[t] = Raise(Exc(outcome'[t], calls[t]))
               /\ calls'[t] = calls[t]
               /\ sleeps'[t] = sleeps[t]
               /\ retry_log'[t] = retry_log[t]]_vars
    /\ [][\A t \in Callers :
            (pc[t] = "done" /\ pc'[t] # "idle")
            => /\ pc'[t] = "done"
               /\ calls'[t] = calls[t]
               /\ sleeps'[t] = sleeps[t]
               /\ retry_log'[t] = retry_log[t]]_vars

\* an unknown error on the second of three allowed attempts ended the call
C7_Witness ==
    \E t \in Callers :
        /\ pc[t] = "done" /\ op[t] = "retry_with_backoff"
        /\ max_retries[t] = 2 /\ on_retry[t] = "returns"
        /\ outcome[t] = "unknown" /\ calls[t] = 2
        /\ sleeps[t] = 1 /\ Len(retry_log[t]) = 1
        /\ result[t] = Raise(Exc("unknown", 2))

\* C8: every step of the first attempt of retry_with_circuit_breaker that
\* finds the breaker Open before the recovery timeout leaves the breaker as
\* it is, with no invocation of the callable, no on_retry call and no sleep,
\* and the call ends by raising CircuitBreakerError.
C8_CoordinatorFastFail ==
    [][\A t \in Callers :
         ( /\ op[t] = "retry_with_circuit_breaker" /\ attempt[t] = 0
           /\ pc'[t] # pc[t]
           /\ cb.state = "open"
           /\ \/ pc[t] = "can_execute" /\ ~Elapsed
              \/ InDenial(t) )
         => /\ cb' = cb
            /\ calls'[t] = 0 /\ sleeps'[t] = 0 /\ retry_log'[t] = <<>>
            /\ pc'[t] \in {"denied", "denied_elapsed", "done"}
            /\ pc'[t] = "done" => result'[t] = Raise(CircuitBreakerError)]_vars

\* a call with two retries and an on_retry callback was refused at once
C8_Witness ==
    \E t \in Callers :
        /\ pc[t] = "done" /\ op[t] = "retry_with_circuit_breaker"
        /\ entry[t][1] = "open"
        /\ max_retries[t] = 2 /\ on_retry[t] = "returns"
        /\ result[t] = Raise(CircuitBreakerError)
        /\ calls[t] = 0 /\ sleeps[t] = 0 /\ retry_log[t] = <<>>

\* C9: a finished retry_with_circuit_breaker(max_retries = R >= 0) that
\* started on a Closed breaker with failure_count 0, whose callable raised a
\* retriable error each time, whose on_retry (if any) returned normally and
\* none of whose attempts was admitted as a probe (the recovery timeout did
\* not elapse), has invoked the callable min(failure_threshold, R + 1) times;
\* it raises CircuitBreakerError if failure_threshold <= R and the last
\* retriable error otherwise.
C9_LoopStopsAtOpenBreaker ==
    \A t \in Callers :
        ( /\ pc[t] = "done" /\ op[t] = "retry_with_circuit_breaker"
          /\ max_retries[t] >= 0 /\ on_retry[t] # "raises"
          /\ entry[t] = <<"closed", 0>>
          /\ outcome[t] \in RETRIABLE_ERRORS
          /\ admitted[t] = "closed" )
        => /\ calls[t] = Min(cb.failure_threshold, max_retries[t] + 1)
           /\ cb.failure_threshold <= max_retries[t] =>
                 result[t] = Raise(CircuitBreakerError)
           /\ cb.failure_threshold > max_retries[t] =>
                 result[t] = Raise(Exc(outcome[t], max_retries[t] + 1))

\* threshold 2, two retries: two invocations, then the third attempt was
\* refused
C9_Witness ==
    \E t \in Callers :
        /\ pc[t] = "done" /\ op[t] = "retry_with_circuit_breaker"
        /\ entry[t] = <<"closed", 0>> /\ admitted[t] = "closed"
        /\ cb.failure_threshold = 2 /\ max_retries[t] = 2
        /\ outcome[t] \in RETRIABLE_ERRORS
        /\ calls[t] = 2 /\ sleeps[t] = 2
        /\ result[t] = Raise(CircuitBreakerError)

ResetStep(t) == pc[t] = "idle" /\ pc'[t] = "done" /\ op'[t] = "reset"

\* C11: the state of the breaker changes only along Closed -> Open,
\* Open -> HalfOpen, HalfOpen -> Closed and HalfOpen -> Open, or to Closed by
\* a reset() from any state: never Closed -> HalfOpen, and never
\* Open -> Closed without a reset().
C11_OnlyLegalEdges ==
    [][cb'.state # cb.state =>
          \/ <<cb.state, cb'.state>> \in
                 {<<"closed", "open">>, <<"open", "half_open">>,
                  <<"half_open", "closed">>, <<"half_open", "open">>}
          \/ (\E t \in Callers : ResetStep(t)) /\ cb'.state = "closed"]_vars

\* a call admitted before the breaker opened records its success while the
\* breaker is Open, and the breaker stays Open
C11_Witness ==
    /\ cb.state = "open"
    /\ last_record = <<"open", "ok">>
    /\ cb.failure_count = 0

\* ---- _record_failure statement by statement, under self._lock ----

\* mutant of can_acquire: the lock excludes nobody
can_acquire_always(holder) == TRUE

\* threading.Lock: `with self._lock:` enters only while nobody holds it
can_acquire(holder) == holder = 0

RecordFailurePcs == {"rf_load", "rf_store", "rf_time", "rf_test", "rf_open", "rf_release"}

\* execute: `if not self.can_execute():`, whose body holds the lock from
\* beginning to end
LockedExecuteCheck(t) ==
    /\ can_acquire(lock)
    /\ ExecuteCheck(t)

\* execute: func() raises a tracked exception, `self._record_failure()` is
\* called
FuncRaisesTracked(t) ==
    /\ pc[t] = "call"
    /\ op[t] = "execute"
    /\ pc' = [pc EXCEPT ![t] = "rf_lock"]
    /\ outcome' = [outcome EXCEPT ![t] = "retriable"]
    /\ UNCHANGED <<cb, now, op, max_retries, on_retry, attempt, last_exception, calls,
                   sleeps, retry_log, entry, admitted, result, consec, last_record, aux>>

\* _record_failure: `with self._lock:`
RfAcquire(t) ==
    /\ pc[t] = "rf_lock"
    /\ can_acquire(lock)
    /\ lock' = t
    /\ pc' = [pc EXCEPT ![t] = "rf_load"]
    /\ UNCHANGED <<cb, now, op, max_retries, on_retry, attempt, last_exception, calls,
                   sleeps, retry_log, entry, admitted, outcome, result, consec,
                   last_record, rf_count, opened, registry_vars, backoff_vars, fallback_vars, status_vars, pair_vars, both_vars>>

\* `self.failure_count += 1`: the load of the field
RfLoad(t) ==
    /\ pc[t] = "rf_load"
    /\ rf_count' = [rf_count EXCEPT ![t] = cb.failure_count]
    /\ pc' = [pc EXCEPT ![t] = "rf_store"]
    /\ UNCHANGED <<cb, now, op, max_retries, on_retry, attempt, last_exception, calls,
                   sleeps, retry_log, entry, admitted, outcome, result, consec,
                   last_record, lock, opened, registry_vars, backoff_vars, fallback_vars, status_vars, pair_vars, both_vars>>

\* `self.failure_count += 1`: the store of the loaded value plus one
RfStore(t) ==
    /\ pc[t] = "rf_store"
    /\ cb' = [cb EXCEPT !.failure_count = rf_count[t] + 1]
    /\ pc' = [pc EXCEPT ![t] = "rf_time"]
    /\ UNCHANGED <<now, op, max_retries, on_retry, attempt, last_exception, calls,
                   sleeps, retry_log, entry, admitted, outcome, result, consec,
                   last_record, aux>>

\* `self.last_failure_time = datetime.now()`
RfTime(t) ==
    /\ pc[t] = "rf_time"
    /\ cb' = [cb EXCEPT !.last_failure_time = now]
    /\ pc' = [pc EXCEPT ![t] = "rf_test"]
    /\ UNCHANGED <<now, op, max_retries, on_retry, attempt, last_exception, calls,
                   sleeps, retry_log, entry, admitted, outcome, result, consec,
                   last_record, aux>>

\* `if self.state == HALF_OPEN: ... elif self.state == CLOSED and
\* self.failure_count >= self.failure_threshold:`
RfTest(t) ==
    /\ pc[t] = "rf_test"
    /\ pc' = [pc EXCEPT ![t] =
                 IF cb.state = "half_open" THEN "rf_open"
                 ELSE IF cb.state = "closed" /\ cb.failure_count >= cb.failure_threshold
                      THEN "rf_open"
                 ELSE "rf_release"]
    /\ UNCHANGED <<cb, now, op, max_retries, on_retry, attempt, last_exception, calls,
                   sleeps, retry_log, entry, admitted, outcome, result, consec,
                   last_record, aux>>

\* `self.state = CircuitBreakerState.OPEN` and the warning that is logged
RfOpen(t) ==
    /\ pc[t] = "rf_open"
    /\ cb' = [cb EXCEPT !.state = "open"]
    /\ opened' = IF cb.state = "closed" THEN opened + 1 ELSE opened
    /\ pc' = [pc EXCEPT ![t] = "rf_release"]
    /\ UNCHANGED <<now, op, max_retries, on_retry, attempt, last_exception, calls,
                   sleeps, retry_log, entry, admitted, outcome, result, consec,
                   last_record, lock, rf_count, registry_vars, backoff_vars, fallback_vars, status_vars, pair_vars, both_vars>>

\* the end of the `with` block releases the lock; execute re-raises the
\* exception of func
RfRelease(t) ==
    /\ pc[t] = "rf_release"
    /\ lock' = 0
    /\ consec' = consec + 1
    /\ last_record' = <<admitted[t], "retriable">>
    /\ pc' = [pc EXCEPT ![t] = "done"]
    /\ result' = [result EXCEPT ![t] = Raise(Exc("retriable", calls[t]))]
    /\ UNCHANGED <<cb, now, op, max_retries, on_retry, attempt, last_exception, calls,
                   sleeps, retry_log, entry, admitted, outcome, rf_count, opened, registry_vars, backoff_vars, fallback_vars, status_vars, pair_vars, both_vars>>

\* every caller makes one execute call whose callable raises a tracked
\* exception; the clock stands still, so an Open breaker stays Open
NextLock ==
    \/ \E t \in Callers : StartExecute(t)
    \/ \E t \in Callers : LockedExecuteCheck(t)
    \/ \E t \in Callers : DeniedRead(t)
    \/ \E t \in Callers : DeniedRaise(t)
    \/ \E t \in Callers : FuncRaisesTracked(t)
    \/ \E t \in Callers : RfAcquire(t)
    \/ \E t \in Callers : RfLoad(t)
    \/ \E t \in Callers : RfStore(t)
    \/ \E t \in Callers : RfTime(t)
    \/ \E t \in Callers : RfTest(t)
    \/ \E t \in Callers : RfOpen(t)
    \/ \E t \in Callers : RfRelease(t)

SpecLock == Init /\ [][NextLock]_vars

\* the executions that were admitted by the Closed breaker and have recorded
\* their tracked failure
RecordedFailures ==
    {t \in Callers : pc[t] = "done" /\ admitted[t] = "closed"
                     /\ outcome[t] \in RETRIABLE_ERRORS}

\* C12: when N executions admitted by a Closed breaker with failure_count 0
\* have recorded a tracked failure, in any interleaving of their statements,
\* and no _record_failure is under way, failure_count is exactly N, the
\* breaker is Open iff N >= failure_threshold, and the state was set from
\* Closed to Open exactly once if it is Open and never otherwise.
C12_AtomicCounters ==
    LET N == Cardinality(RecordedFailures) IN
    (\A t \in Callers : pc[t] \notin RecordFailurePcs) =>
        /\ cb.failure_count = N
        /\ cb.state = "open" <=> N >= cb.failure_threshold
        /\ cb.state \in {"closed", "open"}
        /\ opened = IF N >= cb.failure_threshold THEN 1 ELSE 0

\* every caller's execution was admitted and failed, and the breaker needed
\* at least two failures to open
C12_Witness ==
    /\ \A t \in Callers : t \in RecordedFailures
    /\ cb.failure_threshold >= 2
    /\ cb.failure_count = NumCallers
    /\ cb.state = "open" /\ opened = 1

\* ---- get_retry_service() and RetryService.get_openai_circuit_breaker() ----

\* module-level get_openai_circuit_breaker() (and retry_with_circuit_breaker
\* called without a breaker) begins with get_retry_service():
\* `if _retry_service is None:`
GrsTest(t) ==
    /\ sg[t].pc = "idle"
    /\ sg' = [sg EXCEPT ![t].pc = IF retry_service = 0 THEN "grs_new" ELSE "grs_return"]
    /\ UNCHANGED <<core, lock_vars, backoff_vars, fallback_vars, status_vars, pair_vars, both_vars, retry_service, circuit_breakers, made, returned>>

\* `_retry_service = RetryService()`: a new object with an empty
\* _circuit_breakers
GrsNew(t) ==
    /\ sg[t].pc = "grs_new"
    /\ made.services < NumCallers
    /\ made' = [made EXCEPT !.services = @ + 1]
    /\ retry_service' = made.services + 1
    /\ sg' = [sg EXCEPT ![t].pc = "grs_return"]
    /\ UNCHANGED <<core, lock_vars, backoff_vars, fallback_vars, status_vars, pair_vars, both_vars, circuit_breakers, returned>>

\* `return _retry_service`, and `service = get_retry_service()`; then
\* `if "openai" not in self._circuit_breakers:`
GrsReturn(t) ==
    /\ sg[t].pc = "grs_return"
    /\ sg' = [sg EXCEPT ![t].service = retry_service,
                        ![t].pc = IF circuit_breakers[retry_service]["openai"] = 0
                                  THEN "gob_new" ELSE "gob_return"]
    /\ UNCHANGED <<core, lock_vars, backoff_vars, fallback_vars, status_vars, pair_vars, both_vars, retry_service, circuit_breakers, made, returned>>

\* `self._circuit_breakers["openai"] = self.create_circuit_breaker(name=
\* "OpenAI_API", ...)`: a new CircuitBreaker, stored under its name by
\* create_circuit_breaker and under "openai" by the assignment
GobNew(t) ==
    /\ sg[t].pc = "gob_new"
    /\ made.breakers < NumCallers * NumCallers
    /\ made' = [made EXCEPT !.breakers = @ + 1]
    /\ circuit_breakers' = [circuit_breakers EXCEPT
           ![sg[t].service] = [k \in BreakerKeys |-> made.breakers + 1]]
    /\ sg' = [sg EXCEPT ![t].pc = "gob_return"]
    /\ UNCHANGED <<core, lock_vars, backoff_vars, fallback_vars, status_vars, pair_vars, both_vars, retry_service, returned>>

\* `return self._circuit_breakers["openai"]`
GobReturn(t) ==
    /\ sg[t].pc = "gob_return"
    /\ returned' = returned \cup {circuit_breakers[sg[t].service]["openai"]}
    /\ sg' = [sg EXCEPT ![t] = [pc |-> "idle", service |-> 0]]
    /\ UNCHANGED <<core, lock_vars, backoff_vars, fallback_vars, status_vars, pair_vars, both_vars, retry_service, circuit_breakers, made>>

\* callers asking for the OpenAI breaker, again and again
NextRegistry ==
    \/ \E t \in Callers : GrsTest(t)
    \/ \E t \in Callers : GrsNew(t)
    \/ \E t \in Callers : GrsReturn(t)
    \/ \E t \in Callers : GobNew(t)
    \/ \E t \in Callers : GobReturn(t)

SpecRegistry == Init /\ [][NextRegistry]_vars

\* C13: all calls of get_openai_circuit_breaker(), and so all
\* retry_with_circuit_breaker calls without an explicit breaker, get one and
\* the same CircuitBreaker object, also when the first calls run
\* concurrently.
C13_OneBreaker == Cardinality(returned) <= 1

\* C14: when the callable of an execute call raises an exception outside the
\* tracked set, execute raises that same exception object and leaves every
\* field of the breaker (state, failure_count, success_count,
\* last_failure_time) as it was, in whichever state the call was admitted.
C14_UntrackedLeavesBreaker ==
    [][\A t \in Callers :
         ( /\ FuncDone(t) /\ op[t] = "execute"
           /\ outcome'[t] \notin {"ok"} \cup RETRIABLE_ERRORS )
         => /\ cb' = cb
            /\ pc'[t] = "done"
            /\ result'[t] = Raise(Exc(outcome'[t], calls[t]))]_vars

\* a probe admitted in HalfOpen raised an unknown error and the breaker is
\* still HalfOpen, nothing having been recorded since the failure that
\* opened it
C14_Witness ==
    \E t \in Callers :
        /\ pc[t] = "done" /\ op[t] = "execute"
        /\ outcome[t] = "unknown" /\ admitted[t] = "half_open"
        /\ result[t] = Raise(Exc("unknown", 1))
        /\ cb.state = "half_open"
        /\ last_record[2] = "retriable"
        /\ InFlight = {}

\* C15: in whatever state it is called, reset() leaves the breaker Closed
\* with failure_count 0 and last_failure_time None and leaves success_count,
\* failure_threshold and recovery_timeout as they were; from then on the
\* breaker opens again only in the step that records the
\* failure_threshold-th tracked failure in a row, counted from the reset.
C15_ResetReopensFromZero ==
    /\ [][\A t \in Callers :
            ResetStep(t) =>
               /\ cb'.state = "closed"
               /\ cb'.failure_count = 0
               /\ cb'.last_failure_time = None
               /\ cb'.success_count = cb.success_count
               /\ cb'.failure_threshold = cb.failure_threshold
               /\ cb'.recovery_timeout = cb.recovery_timeout
               /\ consec' = 0]_vars
    /\ [][(cb.state = "closed" /\ cb'.state = "open") =>
            /\ cb'.failure_count = cb.failure_threshold
            /\ consec' = cb.failure_threshold]_vars

\* reset() was called on an Open breaker that had recorded a success and
\* then the failures that opened it; nothing has been recorded since
C15_Witness ==
    \E t \in Callers :
        /\ op[t] = "reset" /\ pc[t] = "done"
        /\ cb.state = "closed" /\ cb.failure_count = 0
        /\ cb.last_failure_time = None
        /\ cb.success_count >= 1
        /\ last_record[2] = "retriable"

\* ---- one caller watching the breaker for longer than the recovery timeout ----

ObserveCallers == {1}

\* the clock advances, also after the recovery timeout has elapsed
TickLate ==
    /\ now < MaxTime + RecoveryTimeout
    /\ now' = now + 1
    /\ UNCHANGED <<cb, pc, op, max_retries, on_retry, attempt, last_exception,
                   calls, sleeps, retry_log, entry, admitted, outcome, result, consec, last_record>>
    /\ UNCHANGED aux

NextObserve ==
    \/ \E t \in ObserveCallers : StartExecute(t)
    \/ \E t \in ObserveCallers : ExecuteCheck(t)
    \/ \E t \in ObserveCallers : DeniedRead(t)
    \/ \E t \in ObserveCallers : DeniedRaise(t)
    \/ \E t \in ObserveCallers : FuncReturns(t)
    \/ \E t \in ObserveCallers : CallGetState(t)
    \/ \E t \in ObserveCallers : CallReset(t)
    \/ \E t \in ObserveCallers : Finish(t)
    \/ TickLate

SpecObserve == Init /\ [][NextObserve]_vars

\* in this step t runs get_state()
GetStateStep(t) == pc[t] = "idle" /\ pc'[t] = "done" /\ op'[t] = "get_state"

\* C16: get_state() changes no field of the breaker, and in particular
\* leaves an Open breaker Open after the recovery timeout has elapsed; the
\* remaining_timeout of its snapshot is 0 when the breaker is not Open and
\* lies between 0 and recovery_timeout when it is Open; the other fields of
\* the snapshot are the fields of the breaker.
C16_GetStateReadsOnly ==
    /\ [][\A t \in Callers :
            GetStateStep(t) =>
               /\ cb' = cb
               /\ result'[t].kind = "return"
               /\ cb.state # "open" => result'[t].val = 0
               /\ cb.state = "open" =>
                     /\ result'[t].val >= 0
                     /\ result'[t].val <= cb.recovery_timeout]_vars
    /\ [](LET s == get_state(cb, now) IN
            /\ s.state = cb.state
            /\ s.failure_count = cb.failure_count
            /\ s.success_count = cb.success_count
            /\ s.failure_threshold = cb.failure_threshold
            /\ s.last_failure_time = cb.last_failure_time
            /\ cb.state # "open" => s.remaining_timeout = 0
            /\ cb.state = "open" => s.remaining_timeout \in 0..cb.recovery_timeout)

\* get_state() was called on an Open breaker more than recovery_timeout
\* after the last failure: it returned remaining_timeout 0 and the breaker is
\* still Open
C16_Witness ==
    \E t \in Callers :
        /\ op[t] = "get_state" /\ pc[t] = "done"
        /\ result[t] = Return(0)
        /\ cb.state = "open"
        /\ now - cb.last_failure_time > cb.recovery_timeout

\* get_state() on an Open breaker before the timeout returned the time left
C16_WitnessRemaining ==
    \E t \in Callers :
        /\ op[t] = "get_state" /\ pc[t] = "done"
        /\ cb.state = "open"
        /\ result[t] = Return(cb.recovery_timeout - (now - cb.last_failure_time))
        /\ result[t].val > 0

\* C17: success_count never decreases: it grows by exactly 1 in the step in
\* which the callable of an execute call returns normally, and stays as it
\* is in every other step of execute, can_execute, get_state and reset,
\* however the callers interleave.
C17_SuccessCountCounts ==
    [][cb'.success_count = cb.success_count +
          (IF \E t \in Callers :
                 FuncDone(t) /\ UsesBreaker(op[t]) /\ outcome'[t] = "ok"
           THEN 1 ELSE 0)]_vars

\* after a success was counted a failure was recorded, a reset() was called
\* and another caller read the state: the count is still there
C17_Witness ==
    \E t, u \in Callers :
        /\ op[t] = "reset" /\ pc[t] = "done"
        /\ op[u] = "get_state" /\ pc[u] = "done"
        /\ cb.success_count >= 1
        /\ last_record[2] = "retriable"
        /\ cb.failure_count = 0

\* C18: a retry call that has an on_retry callback calls it with (n, e) once
\* for each failed attempt that is to be retried: the n-th call has n as its
\* first argument and the retriable exception of the n-th invocation as its
\* second, it is made after that invocation and before the n-th sleep, and
\* none is made after a success, after a non-retriable or unknown error, or
\* after the failure of attempt max_retries.
C18_OnRetryOncePerRetry ==
    /\ [](\A t \in Callers :
            (op[t] \in RetryOps /\ on_retry[t] # "absent") =>
               /\ \A i \in 1..Len(retry_log[t]) :
                     retry_log[t][i] = <<i, Exc("retriable", i)>>
               /\ Len(retry_log[t]) =
                     IF \/ pc[t] = "sleep"
                        \/ pc[t] = "done" /\ result[t] = Raise(CallbackError)
                     THEN attempt[t] + 1 ELSE attempt[t]
               /\ sleeps[t] = attempt[t]
               /\ Len(retry_log[t]) <= IF max_retries[t] >= 0 THEN max_retries[t] ELSE 0)
    /\ [][\A t \in Callers :
            (retry_log'[t] # retry_log[t] /\ retry_log'[t] # <<>>) =>
               /\ retry_log'[t] = Append(retry_log[t], <<calls[t], Exc(outcome[t], calls[t])>>)
               /\ outcome[t] \in RETRIABLE_ERRORS
               /\ on_retry[t] # "absent"
               /\ attempt[t] < max_retries[t]
               /\ sleeps[t] = calls[t] - 1
               /\ calls'[t] = calls[t] /\ sleeps'[t] = sleeps[t]]_vars
    /\ [][\A t \in Callers :
            (sleeps'[t] = sleeps[t] + 1 /\ on_retry[t] # "absent") =>
               Len(retry_log[t]) = sleeps'[t]]_vars

\* two retries allowed, three failures: the callback was told about the
\* first and the second, not about the third
C18_Witness ==
    \E t \in Callers :
        /\ pc[t] = "done" /\ op[t] = "retry_with_backoff"
        /\ on_retry[t] = "returns" /\ max_retries[t] = 2
        /\ calls[t] = 3
        /\ result[t] = Raise(Exc("retriable", 3))
        /\ retry_log[t] = << <<1, Exc("retriable", 1)>>, <<2, Exc("retriable", 2)>> >>

\* ---- exponential_backoff_delay ----

\* bounds of the arguments: attempt, base_delay and max_delay (seconds)
MaxAttempt == 3
MaxBaseDelay == 2
MaxDelay == 4

\* `0.1 * delay`: the jitter is at most a tenth of the capped delay.  Delays
\* that the function returns are counted in tenths of a second, so that the
\* jitter drawn by random.uniform(0, 0.1 * delay) is one of 0, 1, ..., delay
\* tenths.
JitterInverse == 10

\* base_delay is a float, so `base_delay * (2 ** attempt)` converts the int
\* 2 ** attempt to a float; the conversion raises OverflowError from
\* 2 ** 1024 on (sys.float_info.max_exp)
FloatMaxExp == 1024
OverflowError == Exc("OverflowError", 0)

\* v * 2^a capped at m, without building 2^a: doubling stops as soon as the
\* cap is reached
RECURSIVE capped_power(_, _, _)
capped_power(v, a, m) ==
    IF v = 0 THEN 0
    ELSE IF v >= m THEN m
    ELSE IF a = 0 THEN v
    ELSE capped_power(2 * v, a - 1, m)

\* the values random.uniform(0, 0.1 * delay) can return, in tenths
jitter_draws(delay) == 0..delay

\* exponential_backoff_delay(attempt, base_delay, max_delay) when the jitter
\* drawn is `jitter`: the delay in tenths of a second
exponential_backoff_delay(a, base_delay, max_delay, jitter) ==
    IF a >= FloatMaxExp THEN Raise(OverflowError)
    ELSE Return(JitterInverse * capped_power(base_delay, a, max_delay) + jitter)

\* the attempts the function is called with: the first ones, and the ones
\* around the largest power of two a float can hold
Attempts == 0..MaxAttempt \cup {FloatMaxExp - 2, FloatMaxExp - 1, FloatMaxExp}

InitBackoff ==
    /\ InitBreaker
    /\ \E a \in Attempts, b \in 0..MaxBaseDelay :
         \E m \in b..MaxDelay :
            bo = [attempt |-> a, base_delay |-> b, max_delay |-> m,
                  first |-> NoResult, second |-> NoResult]
    /\ fb = NoFallback
    /\ NoSideViews

\* exponential_backoff_delay(attempt, base_delay, max_delay) is called
BackoffCall ==
    /\ bo.first = NoResult
    /\ \E j \in jitter_draws(capped_power(bo.base_delay, bo.attempt, bo.max_delay)) :
         bo' = [bo EXCEPT !.first =
                   exponential_backoff_delay(bo.attempt, bo.base_delay, bo.max_delay, j)]
    /\ UNCHANGED <<core, lock_vars, registry_vars, fallback_vars, status_vars, pair_vars, both_vars>>

\* exponential_backoff_delay(attempt + 1, base_delay, max_delay) is called,
\* with a jitter drawn anew
BackoffCallNext ==
    /\ bo.first # NoResult
    /\ bo.second = NoResult
    /\ \E j \in jitter_draws(capped_power(bo.base_delay, bo.attempt + 1, bo.max_delay)) :
         bo' = [bo EXCEPT !.second =
                   exponential_backoff_delay(bo.attempt + 1, bo.base_delay, bo.max_delay, j)]
    /\ UNCHANGED <<core, lock_vars, registry_vars, fallback_vars, status_vars, pair_vars, both_vars>>

NextBackoff ==
    \/ BackoffCall
    \/ BackoffCallNext

SpecBackoff == InitBackoff /\ [][NextBackoff]_vars

\* c = min(base_delay * 2^attempt, max_delay)
BackoffCap(a) == capped_power(bo.base_delay, a, bo.max_delay)

\* r is a returned delay d with c <= d <= 1.1 * c and d <= 1.1 * max_delay
\* (d in tenths of a second, c and max_delay in seconds)
WithinJitter(r, c) ==
    /\ r.kind = "return"
    /\ JitterInverse * c <= r.val
    /\ r.val <= (JitterInverse + 1) * c
    /\ r.val <= (JitterInverse + 1) * bo.max_delay

\* the delay grows from attempt to attempt + 1 while the cap is not reached
GrowsBelowCap ==
    ( /\ bo.base_delay > 0
      /\ bo.second # NoResult
      /\ capped_power(bo.base_delay, bo.attempt + 1, bo.max_delay + 1) <= bo.max_delay )
    => /\ bo.first.kind = "return" /\ bo.second.kind = "return"
       /\ bo.first.val < bo.second.val

\* C19: for every attempt a >= 0, base_delay >= 0, max_delay >= base_delay
\* and every jitter drawn, exponential_backoff_delay(a) returns a delay
\* between c and 1.1 * c for c = min(base_delay * 2^a, max_delay), which is
\* never more than 1.1 * max_delay; for base_delay > 0 the delay of attempt
\* a + 1 is larger than that of attempt a whenever base_delay * 2^(a+1) <=
\* max_delay.
C19_DelayWithinJitter ==
    /\ bo.first # NoResult => WithinJitter(bo.first, BackoffCap(bo.attempt))
    /\ bo.second # NoResult => WithinJitter(bo.second, BackoffCap(bo.attempt + 1))
    /\ GrowsBelowCap

\* the same for the attempts whose power of two a float can hold
C19_DelayWithinJitterInRange ==
    /\ (bo.first # NoResult /\ bo.attempt < FloatMaxExp) =>
           WithinJitter(bo.first, BackoffCap(bo.attempt))
    /\ (bo.second # NoResult /\ bo.attempt + 1 < FloatMaxExp) =>
           WithinJitter(bo.second, BackoffCap(bo.attempt + 1))
    /\ bo.attempt + 1 < FloatMaxExp => GrowsBelowCap

\* a delay below the cap with the largest jitter, followed by a capped one
C19_WitnessInRange ==
    /\ bo.base_delay = 1 /\ bo.attempt = 1 /\ bo.max_delay = 3
    /\ bo.first = Return(22)
    /\ bo.second = Return(30)

\* ---- FallbackService.generate_fallback_response ----

\* What detect_question_type looks for in the normalised question; a
\* question is the set of these it contains (the empty string contains
\* none).  "definition" stands for any of "qu'est-ce", "definition", "c'est
\* quoi"; "emotivite" for "emotivite" or "emotif"; "activite" for "activite"
\* or "actif"; "types" for "types", "8 types" or "huit types"; "mon type" for
\* "mon type", "quel type" or "je suis"; "comment" for "comment", "pourquoi"
\* or "difference".
Patterns == {"definition", "caracterologie", "emotivite", "activite", "retentissement",
             "types", "mon type", "comment"}

\* the questions: strings, and a value that is no string (None), on which
\* question.lower() raises AttributeError
Questions ==
    [is_str : {TRUE}, hits : SUBSET Patterns] \cup {[is_str |-> FALSE, hits |-> {}]}

\* the keys of educational_content
KnownLevels == {"beginner", "intermediate", "advanced"}
\* user_level: a known level, another string, or an unhashable value (a
\* list), on which educational_content.get raises TypeError
UserLevels == KnownLevels \cup {"expert", "unhashable"}

\* the keys of character_types
CharacterTypes == {"nerveux", "sentimental", "colerique", "passionne", "sanguin",
                   "flegmatique", "amorphe", "apathique"}
\* the lengths of each list of educational_content and of exploration_suggestions
EducationalTips == 4
ExplorationSuggestions == 5

\* a text is a sequence of pieces: whitespace, or a piece of words
Ws == [kind |-> "ws", id |-> "", n |-> 0]
Words(k, i, n) == [kind |-> k, id |-> i, n |-> n]

\* str.strip()
RECURSIVE lstrip(_)
lstrip(s) == IF s # <<>> /\ Head(s) = Ws THEN lstrip(Tail(s)) ELSE s
RECURSIVE rstrip(_)
rstrip(s) == IF s # <<>> /\ s[Len(s)] = Ws THEN rstrip(SubSeq(s, 1, Len(s) - 1)) ELSE s
strip(s) == rstrip(lstrip(s))

\* mutant of detect_question_type: the test for a type identification comes
\* before the test for the list of types
detect_question_type_identification_first(q) ==
    IF "definition" \in q.hits /\ "caracterologie" \in q.hits THEN "definition_caracterologie"
    ELSE IF "definition" \in q.hits /\ "emotivite" \in q.hits THEN "definition_emotivite"
    ELSE IF "definition" \in q.hits /\ "activite" \in q.hits THEN "definition_activite"
    ELSE IF "definition" \in q.hits /\ "retentissement" \in q.hits THEN "definition_retentissement"
    ELSE IF "mon type" \in q.hits THEN "type_identification"
    ELSE IF "types" \in q.hits THEN "types_list"
    ELSE IF "comment" \in q.hits THEN "explanation"
    ELSE "general"

\* CharacterologyFallbackSystem.detect_question_type
detect_question_type(q) ==
    IF "definition" \in q.hits /\ "caracterologie" \in q.hits THEN "definition_caracterologie"
    ELSE IF "definition" \in q.hits /\ "emotivite" \in q.hits THEN "definition_emotivite"
    ELSE IF "definition" \in q.hits /\ "activite" \in q.hits THEN "definition_activite"
    ELSE IF "definition" \in q.hits /\ "retentissement" \in q.hits THEN "definition_retentissement"
    ELSE IF "types" \in q.hits THEN "types_list"
    ELSE IF "mon type" \in q.hits THEN "type_identification"
    ELSE IF "comment" \in q.hits THEN "explanation"
    ELSE "general"

\* faq_responses[key]: a triple-quoted text, whitespace at both ends
faq_responses(key) == <<Ws, Words("faq", key, 0), Ws>>

\* the content get_fallback_response picks for a question type; ex is the
\* character type drawn by _get_general_response
fallback_content(question_type, ex) ==
    IF question_type = "definition_caracterologie" THEN faq_responses("qu'est-ce que la caracterologie")
    ELSE IF question_type = "definition_emotivite" THEN faq_responses("emotivite")
    ELSE IF question_type = "definition_activite" THEN faq_responses("activite")
    ELSE IF question_type = "definition_retentissement" THEN faq_responses("retentissement")
    ELSE IF question_type = "types_list" THEN faq_responses("les 8 types")
    ELSE IF question_type = "type_identification"
         THEN <<Ws, Words("guide", "type_identification", 0), Ws>>
    ELSE <<Ws, Words("introduction", ex, 0), Ws>>

\* CharacterologyFallbackSystem.get_fallback_response with the draws of
\* random.choice: tip and sug are the places drawn in the list of the level
\* and in exploration_suggestions, ex the character type of the example
get_fallback_response(q, user_level, tip, sug, ex) ==
    IF ~q.is_str THEN [kind |-> "raise", exc |-> "AttributeError"]
    ELSE IF user_level = "unhashable" THEN [kind |-> "raise", exc |-> "TypeError"]
    ELSE
      LET question_type == detect_question_type(q)
          level == IF user_level \in KnownLevels THEN user_level ELSE "beginner"
          full_response ==
              strip(<<Ws>> \o fallback_content(question_type, ex)
                    \o <<Ws, Words("rule", "---", 0), Ws, Words("label", "Le saviez-vous ?", 0), Ws,
                         Words("tip", level, tip), Ws, Words("suggestion", "", sug), Ws,
                         Words("rule", "---", 0), Ws, Words("notice", "Mode degrade", 0), Ws>>)
      IN [kind |-> "return",
          val |-> [content |-> full_response, question_type |-> question_type,
                   user_level |-> user_level, source |-> "fallback_system"]]

\* the text returned when get_fallback_response raises
ApologyText == <<Ws, Words("apology", "Service temporairement indisponible", 0), Ws>>

\* mutant of generate_fallback_response: no try / except
generate_fallback_response_unprotected(q, user_level, tip, sug, ex) ==
    LET response_data == get_fallback_response(q, user_level, tip, sug, ex) IN
    IF response_data.kind = "return"
    THEN [kind |-> "return", val |-> response_data.val.content]
    ELSE response_data

\* FallbackService.generate_fallback_response
generate_fallback_response(q, user_level, tip, sug, ex) ==
    LET response_data == get_fallback_response(q, user_level, tip, sug, ex) IN
    IF response_data.kind = "return"
    THEN [kind |-> "return", val |-> response_data.val.content]
    ELSE [kind |-> "return", val |-> ApologyText]

InitFallback ==
    /\ InitBreaker
    /\ bo = NoBackoff
    /\ \E q \in Questions, l \in UserLevels :
          fb = [question |-> q, user_level |-> l, result |-> [kind |-> "none"]]
    /\ NoSideViews

\* generate_fallback_response(question, user_level) is called
FallbackCall ==
    /\ fb.result.kind = "none"
    /\ \E tip \in 1..EducationalTips, sug \in 1..ExplorationSuggestions, ex \in CharacterTypes :
          fb' = [fb EXCEPT !.result =
                    generate_fallback_response(fb.question, fb.user_level, tip, sug, ex)]
    /\ UNCHANGED <<core, lock_vars, registry_vars, backoff_vars, status_vars, pair_vars, both_vars>>

NextFallback == FallbackCall

SpecFallback == InitFallback /\ [][NextFallback]_vars

\* get_fallback_response raises on these arguments
InnerRaises == ~fb.question.is_str \/ fb.user_level = "unhashable"

\* C20: for every question, the empty one included, and every user_level,
\* an unknown one included, generate_fallback_response raises nothing and
\* returns a non-empty string; when get_fallback_response raises, what it
\* returns is the fixed apology text.
C20_FallbackNeverRaises ==
    fb.result.kind # "none" =>
        /\ fb.result.kind = "return"
        /\ Len(fb.result.val) > 0
        /\ InnerRaises => fb.result.val = ApologyText
        /\ ~InnerRaises =>
              /\ fb.result.val # ApologyText
              /\ fb.result.val[Len(fb.result.val)] = Words("notice", "Mode degrade", 0)

\* a question that is no string made get_fallback_response raise, and the
\* apology text came back
C20_Witness ==
    /\ ~fb.question.is_str
    /\ fb.result.kind = "return"
    /\ fb.result.val = ApologyText

\* the empty question with an unknown level got the general introduction
\* with a tip for beginners
C20_WitnessEmptyQuestion ==
    /\ fb.question = [is_str |-> TRUE, hits |-> {}]
    /\ fb.user_level = "expert"
    /\ fb.result.kind = "return"
    /\ fb.result.val[1].kind = "introduction"
    /\ \E i \in 1..Len(fb.result.val) :
          fb.result.val[i].kind = "tip" /\ fb.result.val[i].id = "beginner"

\* the categories in their order of priority, and what a question must
\* contain to match each
CategoryPriority ==
    <<"definition_caracterologie", "definition_emotivite", "definition_activite",
      "definition_retentissement", "types_list", "type_identification", "explanation",
      "general">>

CategoryNeeds(c) ==
    CASE c = "definition_caracterologie" -> {"definition", "caracterologie"}
      [] c = "definition_emotivite" -> {"definition", "emotivite"}
      [] c = "definition_activite" -> {"definition", "activite"}
      [] c = "definition_retentissement" -> {"definition", "retentissement"}
      [] c = "types_list" -> {"types"}
      [] c = "type_identification" -> {"mon type"}
      [] c = "explanation" -> {"comment"}
      [] OTHER -> {}

\* the first category of the priority order that the question matches
FirstMatch(q) ==
    LET i == CHOOSE k \in 1..Len(CategoryPriority) :
                 /\ CategoryNeeds(CategoryPriority[k]) \subseteq q.hits
                 /\ \A j \in 1..(k - 1) : ~(CategoryNeeds(CategoryPriority[j]) \subseteq q.hits)
    IN CategoryPriority[i]

\* C21: detect_question_type returns the first category the question
\* matches in the order definition + caracterologie, definition + emotivite,
\* definition + activite, definition + retentissement, types_list,
\* type_identification, explanation, and "general" when nothing matches; a
\* question matching a types keyword and a type-identification keyword is
\* types_list unless it is a definition question; a definition question
\* about characterology and a question about the list of types get
\* different categories and their responses start with different texts.
C21_FirstMatchWins ==
    fb.question.is_str =>
        LET c == detect_question_type(fb.question) IN
        /\ c = FirstMatch(fb.question)
        /\ ( /\ {"types", "mon type"} \subseteq fb.question.hits
             /\ "definition" \notin fb.question.hits ) => c = "types_list"
        /\ (fb.result.kind = "return" /\ fb.user_level # "unhashable") =>
              /\ c = "definition_caracterologie" <=>
                    fb.result.val[1] = Words("faq", "qu'est-ce que la caracterologie", 0)
              /\ c = "types_list" <=> fb.result.val[1] = Words("faq", "les 8 types", 0)

\* a question with a types keyword and a type-identification keyword got
\* the list of the 8 types
C21_Witness ==
    /\ fb.question.is_str
    /\ {"types", "mon type", "comment"} \subseteq fb.question.hits
    /\ "definition" \notin fb.question.hits
    /\ fb.result.kind = "return"
    /\ fb.result.val[1] = Words("faq", "les 8 types", 0)


\* ---- one caller that keeps calling while time advances ----

LiveCallers == {1}

\* func() returns or raises; failures are recorded up to MaxTime, so that
\* the bounded clock can still run past the recovery timeout of the last one
LiveFuncReturns(t) ==
    /\ FuncReturns(t)
    /\ outcome'[t] \in RETRIABLE_ERRORS => now <= MaxTime

\* func() returns a value
FuncSucceeds(t) ==
    /\ FuncReturns(t)
    /\ outcome'[t] = "ok"

\* the steps of the caller
LiveCall ==
    \/ \E t \in LiveCallers : StartExecute(t)
    \/ \E t \in LiveCallers : ExecuteCheck(t)
    \/ \E t \in LiveCallers : DeniedRead(t)
    \/ \E t \in LiveCallers : DeniedRaise(t)
    \/ \E t \in LiveCallers : LiveFuncReturns(t)
    \/ \E t \in LiveCallers : Finish(t)

NextLive ==
    \/ LiveCall
    \/ TickLate

\* calls keep being attempted and carried through, time advances, and func
\* is not made to fail for ever
SpecLive ==
    /\ Init
    /\ [][NextLive]_vars
    /\ WF_vars(LiveCall)
    /\ WF_vars(TickLate)
    /\ \A t \in LiveCallers : SF_vars(FuncSucceeds(t))

\* C22: the breaker has no terminal state. Whenever it is Open,
\* last_failure_time is set; while time advances and calls keep being
\* attempted, an Open breaker eventually becomes HalfOpen; and an Open
\* breaker is eventually Closed again when func can still succeed.
C22_NoTerminalState ==
    /\ [](cb.state = "open" => cb.last_failure_time # None)
    /\ (cb.state = "open") ~> (cb.state = "half_open")
    /\ (cb.state = "open" /\ cb.success_count < MaxSuccess) ~> (cb.state = "closed")

\* the breaker opened, the recovery timeout elapsed, and the next call was
\* admitted as the probe
C22_Witness ==
    \E t \in LiveCallers :
        /\ cb.state = "half_open"
        /\ pc[t] = "call"
        /\ admitted[t] = "half_open"
        /\ cb.last_failure_time # None
        /\ now - cb.last_failure_time >= cb.recovery_timeout


\* ---- a RetryStatus object and the calls made on it ----

StatusErrors == {Exc(k, 0) : k \in FuncOutcomes \ {"ok"}}

\* status.start_retry(m)
StatusStart ==
    /\ \E m \in 0..(MaxRetries + 1) :
          rs' = [rs EXCEPT !.status = start_retry(rs.status, m), !.message = <<>>, !.before = rs.status,
                           !.last = [op |-> "start_retry", success |-> TRUE, attempt |-> 0,
                                     max_attempts |-> m]]
    /\ UNCHANGED <<core, lock_vars, registry_vars, backoff_vars, fallback_vars, pair_vars, both_vars>>

\* status.on_retry_attempt(a, e, d)
StatusAttempt ==
    /\ \E a \in 1..(MaxRetries + 1), e \in StatusErrors, d \in 0..MaxDelay :
          rs' = [rs EXCEPT !.status = on_retry_attempt(rs.status, a, e, d), !.message = <<>>,
                           !.before = rs.status,
                           !.last = [op |-> "on_retry_attempt", success |-> TRUE,
                                     attempt |-> a, max_attempts |-> 0]]
    /\ UNCHANGED <<core, lock_vars, registry_vars, backoff_vars, fallback_vars, pair_vars, both_vars>>

\* status.finish_retry(success)
StatusFinish ==
    /\ \E success \in BOOLEAN :
          rs' = [rs EXCEPT !.status = finish_retry(rs.status, success), !.message = <<>>, !.before = rs.status,
                           !.last = [op |-> "finish_retry", success |-> success,
                                     attempt |-> 0, max_attempts |-> 0]]
    /\ UNCHANGED <<core, lock_vars, registry_vars, backoff_vars, fallback_vars, pair_vars, both_vars>>

\* status.get_status_message()
StatusMessage ==
    /\ rs' = [rs EXCEPT !.message = get_status_message(rs.status), !.before = rs.status,
                        !.last = [op |-> "get_status_message", success |-> TRUE,
                                  attempt |-> 0, max_attempts |-> 0]]
    /\ UNCHANGED <<core, lock_vars, registry_vars, backoff_vars, fallback_vars, pair_vars, both_vars>>

NextStatus ==
    \/ StatusStart
    \/ StatusAttempt
    \/ StatusFinish
    \/ StatusMessage

\* status = RetryStatus()
InitStatus ==
    /\ InitBreaker
    /\ bo = NoBackoff
    /\ fb = NoFallback
    /\ rs = NewStatus
    /\ pair = NoPair
    /\ both = NoBoth

SpecStatus == InitStatus /\ [][NextStatus]_vars

\* what the calls on a RetryStatus leave behind, next_delay after
\* finish_retry aside
StatusLifecycle ==
    /\ rs.last.op = "get_status_message" =>
          /\ (rs.message = <<>>) <=> ~rs.status.is_retrying
          /\ rs.status.is_retrying =>
                /\ rs.message[4] = rs.status.current_attempt
                /\ rs.message[5] = rs.status.max_attempts
    /\ rs.last.op \in {"none", "finish_retry"} => ~rs.status.is_retrying
    /\ rs.last.op = "start_retry" =>
          rs.status.is_retrying /\ rs.status.max_attempts = rs.last.max_attempts
    /\ rs.last.op = "on_retry_attempt" =>
          /\ rs.status.current_attempt = rs.last.attempt
          /\ rs.status.max_attempts = rs.before.max_attempts
          /\ rs.status.is_retrying = rs.before.is_retrying
    /\ (rs.last.op = "finish_retry" /\ rs.last.success) =>
          /\ rs.status.current_attempt = 0
          /\ rs.status.last_error = NoExc
    /\ (rs.last.op = "finish_retry" /\ ~rs.last.success) =>
          rs.status.last_error = rs.before.last_error

\* C23: get_status_message returns the empty string exactly when
\* is_retrying is false, which is so before any start_retry and after every
\* finish_retry; finish_retry(success=True) leaves current_attempt = 0,
\* last_error = None and next_delay = 0; finish_retry(success=False) leaves
\* last_error as it was; after start_retry(m) and on_retry_attempt(a, e, d)
\* the message reports attempt a of m.
C23_StatusLifecycle ==
    /\ StatusLifecycle
    /\ (rs.last.op = "finish_retry" /\ rs.last.success) => rs.status.next_delay = 0

\* the same with what finish_retry does to next_delay: nothing, whatever
\* the value of success
C23_StatusLifecycleDelayKept ==
    /\ StatusLifecycle
    /\ rs.last.op = "finish_retry" => rs.status.next_delay = rs.before.next_delay

\* a retry that was announced with a delay has been finished with success
C23_WitnessDelayKept ==
    /\ rs.last.op = "finish_retry"
    /\ rs.last.success
    /\ rs.before.is_retrying
    /\ rs.before.current_attempt > 0
    /\ rs.status.next_delay > 0


\* ---- the two runs, given the same outcomes at the same times ----

\* both runs are called with the same max_retries
PairStart ==
    /\ pair.a.pc = "idle" /\ pair.b.pc = "idle"
    /\ \E R \in RetryBudgets :
          pair' = [pair EXCEPT !.a = run_start(@, R), !.b = run_start(@, R)]
    /\ UNCHANGED <<core, lock_vars, registry_vars, backoff_vars, fallback_vars, status_vars, both_vars>>

\* both runs take their next step, func doing the same in both; while run a
\* is inside its callback, run b, which has none, waits
PairStep ==
    /\ pair.a.pc \notin {"idle", "done"}
    /\ \E o \in FuncOutcomes :
          /\ (pair.a.pc = "call" /\ o = "ok") => pair.a.cb.success_count < MaxSuccess
          /\ (pair.a.pc = "call" /\ o \in RETRIABLE_ERRORS) =>
                pair.a.cb.failure_count < MaxFailures
          /\ pair' = [pair EXCEPT
                        !.a = run_step(@, pair.now, o),
                        !.b = IF pair.a.pc = "on_retry" /\ pair.b.pc # "on_retry"
                              THEN @ ELSE run_step(@, pair.now, o)]
    /\ UNCHANGED <<core, lock_vars, registry_vars, backoff_vars, fallback_vars, status_vars, both_vars>>

\* both calls are over
PairFinish ==
    /\ pair.a.pc = "done"
    /\ pair' = [pair EXCEPT !.a = run_finish(@),
                            !.b = IF @.pc = "done" THEN run_finish(@) ELSE @]
    /\ UNCHANGED <<core, lock_vars, registry_vars, backoff_vars, fallback_vars, status_vars, both_vars>>

\* the clock of both runs advances
PairTick ==
    /\ pair.now < MaxTime
    /\ pair' = [pair EXCEPT !.now = @ + 1]
    /\ UNCHANGED <<core, lock_vars, registry_vars, backoff_vars, fallback_vars, status_vars, both_vars>>

NextPair ==
    \/ PairStart
    \/ PairStep
    \/ PairFinish
    \/ PairTick

\* two breakers with the same configuration, no call made yet
InitPair ==
    /\ InitBreaker
    /\ bo = NoBackoff
    /\ fb = NoFallback
    /\ rs = NoStatus
    /\ pair = NewPair(cb.failure_threshold)
    /\ both = NoBoth

SpecPair == InitPair /\ [][NextPair]_vars

C25_OpenKeepsCount ==
    cb.state = "open" => cb.failure_count >= cb.failure_threshold

\* the same for the breaker used by one caller at a time
C25_OpenKeepsCountSequential ==
    \A t \in ObserveCallers :
        cb.state = "open" =>
            /\ cb.failure_count >= cb.failure_threshold
            /\ pc[t] # "call"

\* one caller has opened the breaker and is being refused
C25_WitnessSequential ==
    \E t \in ObserveCallers :
        /\ cb.state = "open"
        /\ cb.failure_count > cb.failure_threshold
        /\ pc[t] = "denied"


\* C26: HalfOpen -> Closed is caused only by the success of an execution
\* admitted as a probe (by the can_execute that moved Open -> HalfOpen, or
\* while HalfOpen): no call admitted while Closed whose callable returns after
\* the breaker has gone Open and then HalfOpen closes the circuit.
C26_OnlyProbesClose ==
    [][\A t \in Callers :
          (FuncDone(t) /\ cb.state = "half_open" /\ cb'.state = "closed") =>
              admitted[t] = "half_open"]_vars

\* the same for the breaker used by one caller at a time: the success that
\* closes the circuit is the success of the probe
C26_OnlyProbesCloseSequential ==
    [][\A t \in ObserveCallers :
          (FuncDone(t) /\ cb.state = "half_open" /\ cb'.state = "closed") =>
              admitted[t] = "half_open" /\ outcome'[t] = "ok"]_vars

\* the probe of the only caller has closed the circuit
C26_WitnessSequential ==
    \E t \in ObserveCallers :
        /\ last_record = <<"half_open", "ok">>
        /\ admitted[t] = "half_open"
        /\ pc[t] = "done"
        /\ cb.state = "closed"


\* C27: with one caller at a time, every execution admitted while HalfOpen
\* resolves the probe when it completes: whether the callable returns,
\* raises a tracked exception or raises an untracked one, the breaker is
\* Closed or Open afterwards, never still HalfOpen.
C27_ProbeAlwaysResolves ==
    [][\A t \in ObserveCallers :
          (FuncDone(t) /\ admitted[t] = "half_open") =>
              cb'.state \in {"closed", "open"}]_vars


\* C28: an execute call whose can_execute() returned false always fails
\* with CircuitBreakerError and no other exception, also when reset() runs
\* between that check and the reads of last_failure_time.
C28_DeniedRaisesBreakerError ==
    [][\A t \in Callers :
          (InDenial(t) /\ op[t] = "execute" /\ pc'[t] = "done") =>
              result'[t] = Raise(CircuitBreakerError)]_vars

\* the same with nobody else using the breaker between the check and the
\* reads
C28_DeniedRaisesBreakerErrorSequential ==
    [][\A t \in ObserveCallers :
          (InDenial(t) /\ op[t] = "execute" /\ pc'[t] = "done") =>
              /\ result'[t] = Raise(CircuitBreakerError)
              /\ cb' = cb
              /\ calls'[t] = 0]_vars

\* the only caller has been refused
C28_WitnessSequential ==
    \E t \in ObserveCallers :
        /\ op[t] = "execute"
        /\ pc[t] = "done"
        /\ calls[t] = 0
        /\ result[t] = Raise(CircuitBreakerError)
        /\ cb.state = "open"


\* C29: for every integer max_retries, 0 and negative ones included,
\* retry_with_backoff invokes the callable at least once, and when it returns
\* normally it returns the value the last invocation of the callable
\* returned.
C29_ReturnsOnlyAfterSuccess ==
    \A t \in RetryCallers :
        (pc[t] = "done" /\ op[t] = "retry_with_backoff") =>
            /\ calls[t] >= 1
            /\ result[t].kind = "return" =>
                  outcome[t] = "ok" /\ result[t] = Return(calls[t])

\* the same for max_retries >= 0 only
C29_ReturnsOnlyAfterSuccessFromZero ==
    \A t \in RetryCallers :
        (pc[t] = "done" /\ op[t] = "retry_with_backoff" /\ max_retries[t] >= 0) =>
            /\ calls[t] >= 1
            /\ calls[t] <= max_retries[t] + 1
            /\ result[t].kind = "return" =>
                  outcome[t] = "ok" /\ result[t] = Return(calls[t])

\* max_retries = 0: the one invocation returned and its value was returned
C29_WitnessFromZero ==
    \E t \in RetryCallers :
        /\ pc[t] = "done"
        /\ op[t] = "retry_with_backoff"
        /\ max_retries[t] = 0
        /\ result[t] = Return(1)


\* ---- the same calls on retry_service.py and on utils/retry_utils.py ----

BothOps == {"execute", "retry_with_backoff", "retry_with_circuit_breaker"}

\* execute, retry_with_backoff or retry_with_circuit_breaker is called on
\* both modules with the same arguments
BothStart ==
    /\ both.service.pc = "idle" /\ both.legacy.pc = "idle"
    /\ \E o \in BothOps, R \in RetryBudgets, m \in OnRetryModes :
          /\ o = "execute" => R = 0 /\ m = "absent"
          /\ both' = [both EXCEPT !.service = call_start(@, o, R, m),
                                  !.legacy = call_start(@, o, R, m)]
    /\ UNCHANGED <<core, lock_vars, registry_vars, backoff_vars, fallback_vars, status_vars,
                   pair_vars>>

\* both calls take their next step, func doing the same in both (o matters
\* only to the step that is the invocation of func)
BothStep ==
    /\ both.service.pc \notin {"idle", "done"} \/ both.legacy.pc \notin {"idle", "done"}
    /\ \E o \in FuncOutcomes :
          /\ both.service.pc # "call" => o = "ok"
          /\ (both.service.pc = "call" /\ UsesBreaker(both.service.op) /\ o = "ok") =>
                both.service.cb.success_count < MaxSuccess
          /\ ( /\ both.service.pc = "call"
               /\ UsesBreaker(both.service.op)
               /\ o \in RETRIABLE_ERRORS ) =>
                both.service.cb.failure_count < MaxFailures
          /\ both' = [both EXCEPT !.service = run_step(@, both.now, o),
                                  !.legacy = legacy_run_step(@, both.now, o)]
    /\ UNCHANGED <<core, lock_vars, registry_vars, backoff_vars, fallback_vars, status_vars,
                   pair_vars>>

\* the calls are over
BothFinish ==
    /\ both.service.pc = "done" \/ both.legacy.pc = "done"
    /\ both' = [both EXCEPT !.service = IF @.pc = "done" THEN call_finish(@) ELSE @,
                            !.legacy = IF @.pc = "done" THEN call_finish(@) ELSE @]
    /\ UNCHANGED <<core, lock_vars, registry_vars, backoff_vars, fallback_vars, status_vars,
                   pair_vars>>

\* reset() is called on both breakers
BothReset ==
    /\ both.service.pc = "idle" /\ both.legacy.pc = "idle"
    /\ both' = [both EXCEPT !.service.cb = reset(@), !.legacy.cb = legacy_reset(@)]
    /\ UNCHANGED <<core, lock_vars, registry_vars, backoff_vars, fallback_vars, status_vars,
                   pair_vars>>

\* the clock of both advances, also after the recovery timeout has elapsed:
\* between calls, while func runs and during time.sleep
BothTick ==
    /\ both.now < MaxTime + RecoveryTimeout
    /\ both.service.pc \in {"idle", "call", "sleep"}
    /\ both' = [both EXCEPT !.now = @ + 1]
    /\ UNCHANGED <<core, lock_vars, registry_vars, backoff_vars, fallback_vars, status_vars,
                   pair_vars>>

NextBoth ==
    \/ BothStart
    \/ BothStep
    \/ BothFinish
    \/ BothReset
    \/ BothTick

\* a breaker of each module with the same configuration, no call made yet
InitBoth ==
    /\ InitBreaker
    /\ bo = NoBackoff
    /\ fb = NoFallback
    /\ rs = NoStatus
    /\ pair = NoPair
    /\ both = NewBoth(cb.failure_threshold)

SpecBoth == InitBoth /\ [][NextBoth]_vars

\* C30: CircuitBreaker, retry_with_backoff and retry_with_circuit_breaker of
\* retry_service.py behave as those of utils/retry_utils.py: given the same
\* calls, the same outcomes of func and the same clock, after every step the
\* two breakers are equal and report the same state, the same invocations
\* have been made, and the calls have the same result or error.
C30_ModulesEquivalent ==
    /\ both.service.cb = both.legacy.cb
    /\ get_state(both.service.cb, both.now) = legacy_get_state(both.legacy.cb, both.now)
    /\ can_execute(both.service.cb, both.now) = legacy_can_execute(both.legacy.cb, both.now)
    /\ both.service.invoked = both.legacy.invoked
    /\ both.service.calls = both.legacy.calls
    /\ both.service.pc = both.legacy.pc
    /\ both.service.result = both.legacy.result
    /\ both.service.attempt = both.legacy.attempt
    /\ both.service.last_exception = both.legacy.last_exception

\* on both modules a retry_with_circuit_breaker call was refused by the
\* breaker it had opened itself, after two invocations
C30_Witness ==
    /\ both.service.op = "retry_with_circuit_breaker"
    /\ both.legacy.op = "retry_with_circuit_breaker"
    /\ both.service.pc = "done"
    /\ both.legacy.pc = "done"
    /\ both.legacy.result = Raise(CircuitBreakerError)
    /\ both.legacy.calls = 2
    /\ both.legacy.cb.state = "open"

\* on both modules a probe has closed the breaker
C30_WitnessProbe ==
    /\ both.legacy.op = "execute"
    /\ both.legacy.pc = "done"
    /\ both.legacy.result.kind = "return"
    /\ both.legacy.cb.state = "closed"
    /\ both.legacy.cb.last_failure_time # None
    /\ both.service.cb = both.legacy.cb

====
